---- MODULE Spec2Model ----
(***************************************************************************)
(* Authorization Server of the OIDC reference deployment                   *)
(* (apps/auth/src/index.ts with apps/shared/src/validation.ts).            *)
(*                                                                         *)
(* Two state machines share the variables below.                           *)
(*   SpecRegistry  start-up: the client registry is loaded and validated,  *)
(*                 the force-refresh side-set and the sanitized clients    *)
(*                 are derived, the server listens, and the token          *)
(*                 endpoint asks issueRefreshToken for its decision.       *)
(*   Spec          the interaction endpoints (GET details, login, confirm, *)
(*                 cancel) against the OIDC engine's interaction, session  *)
(*                 and grant store, one request in flight at a time.       *)
(***************************************************************************)
EXTENDS Integers, Sequences, FiniteSets, TLC

VARIABLES
    \* ---- start-up and token policy
    envOIDC_CLIENTS,                \* process.env.OIDC_CLIENTS
    clientsFile,                    \* apps/auth/.env.clients.json
    envREDIRECT_URI,                \* REDIRECT_URI as the fallback read it
    envJWKS,                        \* process.env.JWKS as loadJWKS read it
    phase,                          \* "boot","loaded","keyed","configured",
                                    \* "constructed","listening","aborted"
    startupError,                   \* the error that aborted start-up
    clientSource,                   \* the source loadOIDCClients read
    OIDC_CLIENTS,                   \* validated descriptors
    JWKS,                           \* validated key set
    FORCE_REFRESH_CLIENT_ID_SET,
    SANITIZED_CLIENTS,              \* what the OIDC engine is configured with
    lastIssue,                      \* last issueRefreshToken call and its answer
    \* ---- interaction endpoints
    interaction,                    \* the engine's pending interaction
    session,                        \* the engine's authentication session
    grants,                         \* the engine's grant store
    codes,                          \* authorization codes the engine issued
    flows,                          \* authorization requests started so far
    req,                            \* the request in flight in each slot
    \* ---- helper functions of the server
    call,                           \* last helper call: its name, input and answer
    \* ---- client application (apps/app)
    issuerUp,                       \* the issuer answers discovery requests
    config,                         \* let config
    configInitPromise,              \* let configInitPromise: 0 is null
    promises,                       \* the discovery loops started so far
    caller,                         \* the request in flight in each slot
    \* ---- token endpoint of the engine
    tokenFlow                       \* one flow: the code, its tokens, the last leg

regVars == <<envOIDC_CLIENTS, clientsFile, envREDIRECT_URI, envJWKS, phase,
             startupError, clientSource, OIDC_CLIENTS, JWKS,
             FORCE_REFRESH_CLIENT_ID_SET, SANITIZED_CLIENTS, lastIssue>>
ixVars  == <<interaction, session, grants, codes, flows, req>>
fnVars  == <<call>>
appVars == <<issuerUp, config, configInitPromise, promises, caller>>
tokVars == <<tokenFlow>>
rpVars  == <<issuerUp, config, configInitPromise, promises, caller, tokenFlow>>
vars    == <<envOIDC_CLIENTS, clientsFile, envREDIRECT_URI, envJWKS, phase,
             startupError, clientSource, OIDC_CLIENTS, JWKS,
             FORCE_REFRESH_CLIENT_ID_SET, SANITIZED_CLIENTS, lastIssue,
             interaction, session, grants, codes, flows, req, call,
             issuerUp, config, configInitPromise, promises, caller, tokenFlow>>

(***************************************************************************)
(* Bounds of the model.                                                    *)
(***************************************************************************)
MaxClients == 2      \* descriptors in the OIDC_CLIENTS array
MaxFlows   == 2      \* authorization requests started in one run
MaxGrants  == 2      \* grants the store can hold
MaxWords   == 2      \* words in an error message

(***************************************************************************)
(* Client descriptors.  A raw descriptor is a JSON object: a function from *)
(* its keys to values.  URIs are tokens; z.string().url() accepts exactly  *)
(* the absolute ones.                                                      *)
(***************************************************************************)
DefaultRedirectUri == "https://app.localtest.me/callback"
RelativeUri        == "/callback"
AbsoluteUris       == {DefaultRedirectUri, "https://app.localtest.me"}

ClientIds == {"dev-rp", "app1"}

GrantTypeEnum    == {"authorization_code", "refresh_token", "client_credentials"}
ResponseTypeEnum == {"code", "token", "id_token"}
AuthMethodEnum   == {"client_secret_basic", "client_secret_post", "none"}

\* The keys oidcClientSchema declares; z.object() keeps these and drops the rest.
SchemaKeys == {"client_id", "client_secret", "redirect_uris",
               "post_logout_redirect_uris", "grant_types", "response_types",
               "token_endpoint_auth_method"}

BaseClient(id) ==
    [client_id |-> id,
     client_secret |-> "dev-secret",
     redirect_uris |-> <<DefaultRedirectUri>>,
     post_logout_redirect_uris |-> <<"https://app.localtest.me">>,
     grant_types |-> {"authorization_code", "refresh_token"},
     response_types |-> {"code"},
     token_endpoint_auth_method |-> "client_secret_basic"]

WithKey(d, k, v) == (k :> v) @@ d

RawDescriptors ==
    { BaseClient("dev-rp"),
      WithKey(BaseClient("dev-rp"), "force_refresh_token", TRUE),
      WithKey(BaseClient("dev-rp"), "force_refresh_token", FALSE),
      WithKey([BaseClient("dev-rp") EXCEPT !.grant_types = {"authorization_code"}],
              "force_refresh_token", TRUE),
      [BaseClient("dev-rp") EXCEPT !.redirect_uris = <<RelativeUri>>],
      [BaseClient("dev-rp") EXCEPT !.grant_types = {"authorization_code", "implicit"}],
      [BaseClient("dev-rp") EXCEPT !.grant_types = {"client_credentials"}],
      BaseClient("app1"),
      WithKey(BaseClient("app1"), "force_refresh_token", TRUE) }

SeqsUpTo(S, n) == UNION {[1..k -> S] : k \in 0..n}

\* The values process.env.OIDC_CLIENTS can take: unset, the empty string, text
\* that is not JSON, or a JSON array of descriptors.
EnvValues ==
    {[kind |-> "unset", value |-> <<>>], [kind |-> "empty", value |-> <<>>],
     [kind |-> "malformed", value |-> <<>>]}
    \cup {[kind |-> "json", value |-> s] : s \in SeqsUpTo(RawDescriptors, MaxClients)}

\* The states of the file .env.clients.json: absent, not JSON, or a JSON array.
FileValues ==
    {[kind |-> "absent", value |-> <<>>], [kind |-> "malformed", value |-> <<>>]}
    \cup {[kind |-> "json", value |-> s] : s \in SeqsUpTo(RawDescriptors, 1)}

IsUrlAny(u) == TRUE

IsUrl(u) == u \in AbsoluteUris

\* The zod issues of one field of a descriptor: is the field acceptable.
oidcClientFieldOk(d, k) ==
    CASE k \in {"client_id", "client_secret"} -> k \in DOMAIN d /\ d[k] # ""
      [] k = "redirect_uris" ->
            /\ k \in DOMAIN d
            /\ Len(d[k]) >= 1
            /\ \A i \in 1..Len(d[k]) : IsUrl(d[k][i])
      [] k = "post_logout_redirect_uris" ->
            k \in DOMAIN d => \A i \in 1..Len(d[k]) : IsUrl(d[k][i])
      [] k = "grant_types" -> k \in DOMAIN d /\ d[k] \subseteq GrantTypeEnum
      [] k = "response_types" -> k \in DOMAIN d /\ d[k] \subseteq ResponseTypeEnum
      [] k = "token_endpoint_auth_method" -> k \in DOMAIN d => d[k] \in AuthMethodEnum

\* The fields of a descriptor that oidcClientSchema.safeParse reports.
oidcClientSchemaIssues(d) == {k \in SchemaKeys : ~oidcClientFieldOk(d, k)}

\* oidcClientSchema.safeParse on one descriptor: does it pass.
oidcClientSchemaOk(d) == oidcClientSchemaIssues(d) = {}

\* The data oidcClientSchema.safeParse returns: the declared keys only.
oidcClientSchemaOutput(d) == [k \in (DOMAIN d) \cap SchemaKeys |-> d[k]]

\* oidcClientsSchema = z.array(oidcClientSchema)
oidcClientsSchemaParse(list) ==
    IF \A i \in 1..Len(list) : oidcClientSchemaOk(list[i])
    THEN [success |-> TRUE,
          data |-> [i \in 1..Len(list) |-> oidcClientSchemaOutput(list[i])],
          error |-> "none", fields |-> {}]
    ELSE [success |-> FALSE, data |-> <<>>, error |-> "schema",
          fields |-> UNION {oidcClientSchemaIssues(list[i]) : i \in 1..Len(list)}]

\* safeJsonParse(jsonString, schema): JSON.parse, then the schema.
safeJsonParse(text) ==
    IF text.kind = "json" THEN oidcClientsSchemaParse(text.value)
    ELSE [success |-> FALSE, data |-> <<>>, error |-> "JSON parse error",
          fields |-> {}]

\* No error has aborted start-up.
NoStartupError == [message |-> "none", fields |-> {}]

\* getRequiredEnv( "REDIRECT_URI", default ): the values it can return.
RedirectUriValues == {DefaultRedirectUri, RelativeUri}

loadOIDCClientsFallThrough(envv, file, redirectUri) ==
    LET e == safeJsonParse(envv)
        f == safeJsonParse(file)
        d == oidcClientsSchemaParse(
                 <<[BaseClient("dev-rp") EXCEPT !.redirect_uris = <<redirectUri>>]>>)
    IN  IF envv.kind \notin {"unset", "empty"} /\ e.success
        THEN [source |-> "env", ok |-> TRUE, data |-> e.data, error |-> NoStartupError]
        ELSE IF file.kind # "absent" /\ f.success
        THEN [source |-> "file", ok |-> TRUE, data |-> f.data, error |-> NoStartupError]
        ELSE [source |-> "fallback", ok |-> d.success, data |-> d.data,
              error |-> IF d.success THEN NoStartupError
                        ELSE [message |-> "Invalid default OIDC client configuration",
                              fields |-> d.fields]]

\* loadOIDCClients(): the first present source decides, a failure throws.
loadOIDCClients(envv, file, redirectUri) ==
    IF envv.kind \notin {"unset", "empty"}
    THEN LET r == safeJsonParse(envv)
         IN  [source |-> "env", ok |-> r.success, data |-> r.data,
              error |-> IF r.success THEN NoStartupError
                        ELSE [message |-> "Invalid OIDC clients configuration",
                              fields |-> r.fields]]
    ELSE IF file.kind # "absent"
    THEN LET r == safeJsonParse(file)
         IN  [source |-> "file", ok |-> r.success, data |-> r.data,
              error |-> IF r.success THEN NoStartupError
                        ELSE [message |-> "Invalid OIDC clients configuration",
                              fields |-> r.fields]]
    ELSE LET r == oidcClientsSchemaParse(
                      <<[BaseClient("dev-rp") EXCEPT !.redirect_uris = <<redirectUri>>]>>)
         IN  [source |-> "fallback", ok |-> r.success, data |-> r.data,
              error |-> IF r.success THEN NoStartupError
                        ELSE [message |-> "Invalid default OIDC client configuration",
                              fields |-> r.fields]]

\* Boolean(c.force_refresh_token)
ForceFlag(c) == "force_refresh_token" \in DOMAIN c /\ c.force_refresh_token = TRUE

ForceRefreshSet(clients) ==
    {clients[i].client_id : i \in {j \in 1..Len(clients) : ForceFlag(clients[j])}}

\* const { force_refresh_token, ...rest } = c; return rest;
Sanitize(c) == [k \in (DOMAIN c) \ {"force_refresh_token"} |-> c[k]]

SanitizedClients(clients) == [i \in 1..Len(clients) |-> Sanitize(clients[i])]

(***************************************************************************)
(* The signing keys.                                                       *)
(***************************************************************************)
KtyEnum == {"RSA", "EC", "OKP", "oct"}

\* The values process.env.JWKS can take: unset, the empty string, text that is
\* not JSON, or a JSON object.
JwksValues ==
    {[kind |-> "unset", value |-> <<>>], [kind |-> "empty", value |-> <<>>],
     [kind |-> "malformed", value |-> <<>>],
     [kind |-> "json", value |-> [keys |-> <<[kty |-> "RSA", kid |-> "k1"]>>]],
     [kind |-> "json", value |-> [keys |-> <<>>]],
     [kind |-> "json", value |-> [keys |-> <<[kty |-> "DSA", kid |-> "k1"]>>]],
     [kind |-> "json", value |-> [issuer |-> "x"]]}

\* The fields of a key set that jwksSchema.safeParse reports.
jwksSchemaIssues(v) ==
    IF "keys" \notin DOMAIN v THEN {"keys"}
    ELSE IF Len(v.keys) < 1 THEN {"keys"}
    ELSE IF \E i \in 1..Len(v.keys) : v.keys[i].kty \notin KtyEnum THEN {"kty"}
    ELSE {}

NoJWKS == [keys |-> <<>>]

\* loadJWKS(): undefined when JWKS is not set, the validated key set, or a throw.
loadJWKS(jwksEnv) ==
    IF jwksEnv.kind \in {"unset", "empty"}
    THEN [ok |-> TRUE, data |-> NoJWKS, error |-> NoStartupError]
    ELSE IF jwksEnv.kind # "json"
    THEN [ok |-> FALSE, data |-> NoJWKS,
          error |-> [message |-> "Invalid JWKS configuration", fields |-> {}]]
    ELSE IF jwksSchemaIssues(jwksEnv.value) # {}
    THEN [ok |-> FALSE, data |-> NoJWKS,
          error |-> [message |-> "Invalid JWKS configuration",
                     fields |-> jwksSchemaIssues(jwksEnv.value)]]
    ELSE [ok |-> TRUE, data |-> [keys |-> jwksEnv.value.keys],
          error |-> NoStartupError]

\* The engine's constructor takes the static clients when their ids differ.
EngineAcceptsClients(clients) ==
    \A i, j \in 1..Len(clients) :
        clients[i].client_id = clients[j].client_id => i = j

(***************************************************************************)
(* Token policy.                                                           *)
(***************************************************************************)
CodeScopeSets == {{"openid"}, {"openid", "offline_access"}}

\* client.grantTypeAllowed(type) of the engine's Client object
grantTypeAllowed(client, type) == type \in client.grant_types

issueRefreshTokenNoGrantCheck(client, scopes) ==
    "offline_access" \in scopes \/ client.client_id \in FORCE_REFRESH_CLIENT_ID_SET

issueRefreshToken(client, scopes) ==
    IF ~grantTypeAllowed(client, "refresh_token")
    THEN FALSE
    ELSE LET requestedOfflineAccess == "offline_access" \in scopes
             isForceEnabled == client.client_id \in FORCE_REFRESH_CLIENT_ID_SET
         IN  requestedOfflineAccess \/ isForceEnabled

NoIssue == [called |-> FALSE, clientId |-> "none", grantTypes |-> {},
            scopes |-> {}, result |-> FALSE]

(***************************************************************************)
(* Start-up actions.                                                       *)
(***************************************************************************)
StartupLoadClients ==
    /\ phase = "boot"
    /\ \E u \in (IF envOIDC_CLIENTS.kind \in {"unset", "empty"}
                     /\ clientsFile.kind = "absent"
                  THEN RedirectUriValues ELSE {"unread"}) :
          LET r == loadOIDCClients(envOIDC_CLIENTS, clientsFile, u)
          IN  /\ envREDIRECT_URI' = u
              /\ clientSource' = r.source
              /\ IF r.ok
                 THEN /\ OIDC_CLIENTS' = r.data
                      /\ phase' = "loaded"
                      /\ UNCHANGED startupError
                 ELSE /\ startupError' = r.error
                      /\ phase' = "aborted"
                      /\ UNCHANGED OIDC_CLIENTS
    /\ UNCHANGED <<envOIDC_CLIENTS, clientsFile, envJWKS, JWKS,
                   FORCE_REFRESH_CLIENT_ID_SET, SANITIZED_CLIENTS, lastIssue>>
    /\ UNCHANGED ixVars
    /\ UNCHANGED fnVars
    /\ UNCHANGED rpVars

\* const JWKS = loadJWKS()
StartupLoadJWKS ==
    /\ phase = "loaded"
    /\ \E v \in JwksValues :
          LET r == loadJWKS(v)
          IN  /\ envJWKS' = v
              /\ IF r.ok
                 THEN /\ JWKS' = r.data
                      /\ phase' = "keyed"
                      /\ UNCHANGED startupError
                 ELSE /\ startupError' = r.error
                      /\ phase' = "aborted"
                      /\ UNCHANGED JWKS
    /\ UNCHANGED <<envOIDC_CLIENTS, clientsFile, envREDIRECT_URI, clientSource,
                   OIDC_CLIENTS, FORCE_REFRESH_CLIENT_ID_SET, SANITIZED_CLIENTS,
                   lastIssue>>
    /\ UNCHANGED ixVars
    /\ UNCHANGED fnVars
    /\ UNCHANGED rpVars

StartupSanitize ==
    /\ phase = "keyed"
    /\ FORCE_REFRESH_CLIENT_ID_SET' = ForceRefreshSet(OIDC_CLIENTS)
    /\ SANITIZED_CLIENTS' = SanitizedClients(OIDC_CLIENTS)
    /\ phase' = "configured"
    /\ UNCHANGED <<envOIDC_CLIENTS, clientsFile, envREDIRECT_URI, envJWKS,
                   startupError, clientSource, OIDC_CLIENTS, JWKS, lastIssue>>
    /\ UNCHANGED ixVars
    /\ UNCHANGED fnVars
    /\ UNCHANGED rpVars

\* main(): new Provider( ISSUER, configuration ).  The engine registers the
\* static clients by client_id and refuses a second one with the same id; the
\* rejection ends in main().catch and process.exit( 1 ).
StartupProvider ==
    /\ phase = "configured"
    /\ IF EngineAcceptsClients(SANITIZED_CLIENTS)
       THEN /\ phase' = "constructed"
            /\ UNCHANGED startupError
       ELSE /\ phase' = "aborted"
            /\ startupError' = [message |-> "client_id must be unique",
                                fields |-> {"client_id"}]
    /\ UNCHANGED <<envOIDC_CLIENTS, clientsFile, envREDIRECT_URI, envJWKS,
                   clientSource, OIDC_CLIENTS, JWKS, FORCE_REFRESH_CLIENT_ID_SET,
                   SANITIZED_CLIENTS, lastIssue>>
    /\ UNCHANGED ixVars
    /\ UNCHANGED fnVars
    /\ UNCHANGED rpVars

\* app.listen( PORT, ... )
StartupListen ==
    /\ phase = "constructed"
    /\ phase' = "listening"
    /\ UNCHANGED <<envOIDC_CLIENTS, clientsFile, envREDIRECT_URI, envJWKS,
                   startupError, clientSource, OIDC_CLIENTS, JWKS,
                   FORCE_REFRESH_CLIENT_ID_SET, SANITIZED_CLIENTS, lastIssue>>
    /\ UNCHANGED ixVars
    /\ UNCHANGED fnVars
    /\ UNCHANGED rpVars

\* The token endpoint exchanges a code of one registered client and asks the policy.
TokenRequest ==
    /\ phase = "listening"
    /\ \E i \in 1..Len(SANITIZED_CLIENTS), scopes \in CodeScopeSets :
          LET client == SANITIZED_CLIENTS[i]
          IN  lastIssue' = [called |-> TRUE,
                            clientId |-> client.client_id,
                            grantTypes |-> client.grant_types,
                            scopes |-> scopes,
                            result |-> issueRefreshToken(client, scopes)]
    /\ UNCHANGED <<envOIDC_CLIENTS, clientsFile, envREDIRECT_URI, envJWKS, phase,
                   startupError, clientSource, OIDC_CLIENTS, JWKS,
                   FORCE_REFRESH_CLIENT_ID_SET, SANITIZED_CLIENTS>>
    /\ UNCHANGED ixVars
    /\ UNCHANGED fnVars
    /\ UNCHANGED rpVars

(***************************************************************************)
(* Account store.                                                          *)
(***************************************************************************)
USERS ==
    [e \in {"user@example.test", "blocked@example.test"} |->
        IF e = "user@example.test"
        THEN [id |-> "user_123", email |-> e, password |-> "passw0rd!",
              name |-> "Dev User", oauthAuthorized |-> TRUE]
        ELSE [id |-> "user_456", email |-> e, password |-> "passw0rd!",
              name |-> "Blocked User", oauthAuthorized |-> FALSE]]

\* Values of the form field "email" a browser submits.
Emails == {"user@example.test", "USER@EXAMPLE.TEST", "blocked@example.test",
           "nobody@example.test", "not-an-email"}

\* z.string().min(1).max(254).email()
emailFormatOk(e) == e \in Emails \ {"not-an-email", ""}

\* .transform( val => val.toLowerCase().trim() )
emailTransform(e) == IF e = "USER@EXAMPLE.TEST" THEN "user@example.test" ELSE e

\* Values of the form field "password".
Passwords == {"passw0rd!", "passw0rX!", ""}

\* Strings secureComparePasswords is applied to, under a printable name:
\* "+NUL" stands for a trailing U+0000, "NUL" for the string of one U+0000,
\* "e-acute" for U+00E9, "grin" for the pair U+D83D U+DE00, "hi-surrogate"
\* for the single unit U+D800, "lo-surrogate" for U+DC00 and "replacement"
\* for U+FFFD.
PasswordStrings ==
    Passwords \cup {"short", "passw0rd", "passw0rd!+NUL", "NUL", "e", "e-acute", "grin",
                    "hi-surrogate", "lo-surrogate", "replacement"}

\* The UTF-16 code units of each string, as String.prototype.length and
\* padEnd count them.
CharsOf(p) ==
    CASE p = "passw0rd!"     -> <<112, 97, 115, 115, 119, 48, 114, 100, 33>>
      [] p = "passw0rX!"     -> <<112, 97, 115, 115, 119, 48, 114, 88, 33>>
      [] p = "passw0rd"      -> <<112, 97, 115, 115, 119, 48, 114, 100>>
      [] p = "passw0rd!+NUL" -> <<112, 97, 115, 115, 119, 48, 114, 100, 33, 0>>
      [] p = "short"         -> <<115, 104, 111, 114, 116>>
      [] p = "NUL"           -> <<0>>
      [] p = "e"             -> <<101>>
      [] p = "e-acute"       -> <<233>>
      [] p = "grin"          -> <<55357, 56832>>
      [] p = "hi-surrogate"  -> <<55296>>
      [] p = "lo-surrogate"  -> <<56320>>
      [] p = "replacement"   -> <<65533>>
      [] OTHER               -> <<>>

\* z.string().min(MIN_PASSWORD_LENGTH).max(MAX_PASSWORD_LENGTH)
passwordFormatOk(p) == Len(CharsOf(p)) >= 1 /\ Len(CharsOf(p)) <= 128

loginSchemaOk(email, password) == emailFormatOk(email) /\ passwordFormatOk(password)

\* String.prototype.padEnd(n, "\0"), the NUL character being code 0
padEnd(s, n) == IF Len(s) >= n THEN s ELSE s \o [i \in 1..(n - Len(s)) |-> 0]

Max(a, b) == IF a >= b THEN a ELSE b

IsHighSurrogate(u) == u >= 55296 /\ u <= 56319
IsLowSurrogate(u) == u >= 56320 /\ u <= 57343

\* The bytes of one code point in UTF-8.
Utf8Of(c) ==
    IF c < 128 THEN <<c>>
    ELSE IF c < 2048 THEN <<192 + (c \div 64), 128 + (c % 64)>>
    ELSE IF c < 65536
         THEN <<224 + (c \div 4096), 128 + ((c \div 64) % 64), 128 + (c % 64)>>
    ELSE <<240 + (c \div 262144), 128 + ((c \div 4096) % 64),
           128 + ((c \div 64) % 64), 128 + (c % 64)>>

\* Buffer.from(string, "utf8"): a surrogate pair is one code point, and a
\* surrogate without its partner is written as U+FFFD.
RECURSIVE BufferFrom(_)
BufferFrom(units) ==
    IF units = <<>> THEN <<>>
    ELSE LET u == Head(units)
         IN  IF IsHighSurrogate(u) /\ Len(units) >= 2 /\ IsLowSurrogate(units[2])
             THEN Utf8Of(65536 + (u - 55296) * 1024 + (units[2] - 56320))
                      \o BufferFrom(Tail(Tail(units)))
             ELSE IF IsHighSurrogate(u) \/ IsLowSurrogate(u)
             THEN Utf8Of(65533) \o BufferFrom(Tail(units))
             ELSE Utf8Of(u) \o BufferFrom(Tail(units))

\* crypto.timingSafeEqual: a RangeError when the byte lengths differ.
timingSafeEqual(a, b) ==
    IF Len(a) # Len(b)
    THEN [threw |-> TRUE, value |-> FALSE]
    ELSE [threw |-> FALSE, value |-> a = b]

secureComparePasswords(provided, stored) ==
    LET p == CharsOf(provided)
        s == CharsOf(stored)
        maxLength == Max(Len(p), Len(s))
        paddedProvided == padEnd(p, maxLength)
        paddedStored == padEnd(s, maxLength)
        eq == timingSafeEqual(BufferFrom(paddedProvided), BufferFrom(paddedStored))
    IN  IF eq.threw THEN FALSE ELSE eq.value /\ Len(p) = Len(s)

\* The keys of USERS in the insertion order of the Map, which is the order
\* "for ( const [ , u ] of USERS )" visits them.
UserKeys == <<"user@example.test", "blocked@example.test">>

\* Subject identifiers the engine passes to findAccount.
Subjects == {"user_123", "user_456", "user_999", "USER_123", "user@example.test", ""}

\* claims(): the first user whose id is the subject, or the subject alone.
RECURSIVE claimsOf(_, _)
claimsOf(keys, sub) ==
    IF keys = <<>>
    THEN [sub |-> sub]
    ELSE LET u == USERS[Head(keys)]
         IN  IF u.id = sub
             THEN [sub |-> sub, email |-> u.email, name |-> u.name]
             ELSE claimsOf(Tail(keys), sub)

findAccountFirstUser(sub) ==
    [accountId |-> sub,
     claims |-> LET u == USERS[Head(UserKeys)]
                IN  [sub |-> u.id, email |-> u.email, name |-> u.name]]

findAccount(sub) == [accountId |-> sub, claims |-> claimsOf(UserKeys, sub)]

(***************************************************************************)
(* Error messages as character sequences, so that toLowerCase and includes *)
(* are computed on the characters.                                         *)
(***************************************************************************)
LowerOf ==
    ("A" :> "a") @@ ("B" :> "b") @@ ("C" :> "c") @@ ("D" :> "d") @@ ("E" :> "e") @@ ("F" :> "f") @@ ("G" :> "g")
    @@ ("H" :> "h") @@ ("I" :> "i") @@ ("J" :> "j") @@ ("K" :> "k") @@ ("L" :> "l") @@ ("M" :> "m") @@ ("N" :> "n")
    @@ ("O" :> "o") @@ ("P" :> "p") @@ ("Q" :> "q") @@ ("R" :> "r") @@ ("S" :> "s") @@ ("T" :> "t") @@ ("U" :> "u")
    @@ ("V" :> "v") @@ ("W" :> "w") @@ ("X" :> "x") @@ ("Y" :> "y") @@ ("Z" :> "z")

\* String.prototype.toLowerCase
toLowerCase(s) == [i \in 1..Len(s) |-> IF s[i] \in DOMAIN LowerOf THEN LowerOf[s[i]] ELSE s[i]]

\* String.prototype.includes
includes(s, k) ==
    \E i \in 1..(Len(s) - Len(k) + 1) : SubSeq(s, i, i + Len(k) - 1) = k

\* The words error messages are made of.
Words ==
    {<<"m", "i", "s", "s", "i", "n", "g">>,
     <<"r", "e", "q", "u", "i", "r", "e", "d">>,
     <<"c", "l", "i", "e", "n", "t">>,
     <<"a", "u", "t", "h">>,
     <<"g", "r", "a", "n", "t">>,
     <<"e", "x", "p", "i", "r", "e", "d">>,
     <<"r", "e", "v", "o", "k", "e", "d">>,
     <<"u", "n", "a", "u", "t", "h", "o", "r", "i", "z", "e", "d">>,
     <<"t", "y", "p", "e">>,
     <<"u", "n", "s", "u", "p", "p", "o", "r", "t", "e", "d">>,
     <<"s", "c", "o", "p", "e">>,
     <<"M", "i", "s", "s", "i", "n", "g">>,
     <<"G", "R", "A", "N", "T">>,
     <<"f", "a", "i", "l", "e", "d">>,
     <<"u", "n", "d", "e", "f", "i", "n", "e", "d">>}

\* The patterns mapErrorToOAuthCode looks for, by name.
Patterns ==
    [missing      |-> <<"m", "i", "s", "s", "i", "n", "g">>,
     required     |-> <<"r", "e", "q", "u", "i", "r", "e", "d">>,
     client       |-> <<"c", "l", "i", "e", "n", "t">>,
     auth         |-> <<"a", "u", "t", "h">>,
     grant        |-> <<"g", "r", "a", "n", "t">>,
     expired      |-> <<"e", "x", "p", "i", "r", "e", "d">>,
     revoked      |-> <<"r", "e", "v", "o", "k", "e", "d">>,
     unauthorized |-> <<"u", "n", "a", "u", "t", "h", "o", "r", "i", "z", "e", "d">>,
     grantType    |-> <<"g", "r", "a", "n", "t", " ", "t", "y", "p", "e">>,
     unsupported  |-> <<"u", "n", "s", "u", "p", "p", "o", "r", "t", "e", "d">>,
     scope        |-> <<"s", "c", "o", "p", "e">>]

PatternNames ==
    [missing |-> "missing", required |-> "required", client |-> "client",
     auth |-> "auth", grant |-> "grant", expired |-> "expired",
     revoked |-> "revoked", unauthorized |-> "unauthorized",
     grantType |-> "grant type", unsupported |-> "unsupported", scope |-> "scope"]

RECURSIVE JoinWords(_)
\* The words of a message separated by single spaces.
JoinWords(ws) ==
    IF Len(ws) = 0 THEN <<>>
    ELSE IF Len(ws) = 1 THEN ws[1]
    ELSE ws[1] \o <<" ">> \o JoinWords(Tail(ws))

RECURSIVE TextOf(_)
\* The message as a string.
TextOf(s) == IF Len(s) = 0 THEN "" ELSE s[1] \o TextOf(Tail(s))

\* Messages of up to MaxWords words.
ErrorMessages ==
    {JoinWords(ws) : ws \in UNION {[1..n -> Words] : n \in 1..MaxWords}}

\* error instanceof Error ? error.message : String( error ), and the patterns
\* its lower-cased text includes.
ErrorOf(message) ==
    [text |-> TextOf(message),
     kw   |-> {PatternNames[p] : p \in {q \in DOMAIN Patterns :
                  includes(toLowerCase(message), Patterns[q])}}]

(***************************************************************************)
(* Interaction UIDs, as character sequences.                               *)
(***************************************************************************)
MAX_INTERACTION_UID_LENGTH == 100

\* [a-zA-Z0-9_-]
AllowedUidChars ==
    DOMAIN LowerOf \cup {LowerOf[c] : c \in DOMAIN LowerOf}
    \cup {"0", "1", "2", "3", "4", "5", "6", "7", "8", "9", "_", "-"}

\* The :uid path parameters requests arrive with, as character sequences.
Uids == {<<>>,
         <<"A", "b", "3", "_", "-">>,
         [i \in 1..MAX_INTERACTION_UID_LENGTH |-> "a"],
         [i \in 1..(MAX_INTERACTION_UID_LENGTH + 1) |-> "a"],
         <<"a", "/", "b">>,
         <<"a", "b", " ">>}

validateInteractionUidNoMax(uid) ==
    Len(uid) >= 1 /\ \A i \in 1..Len(uid) : uid[i] \in AllowedUidChars

validateInteractionUid(uid) ==
    /\ Len(uid) >= 1
    /\ Len(uid) <= MAX_INTERACTION_UID_LENGTH
    /\ \A i \in 1..Len(uid) : uid[i] \in AllowedUidChars

(***************************************************************************)
(* Errors thrown inside the handlers.  An error is its message text and    *)
(* the keywords of mapErrorToOAuthCode that the lower-cased text contains. *)
(***************************************************************************)
NoError == [text |-> "none", kw |-> {}]

\* oidc-provider's SessionNotFound: interactionDetails/interactionResult reject
ErrSessionNotFound == [text |-> "invalid_request", kw |-> {}]

\* details.session!.accountId! with no session bound to the interaction
ErrReadAccountId ==
    [text |-> "Cannot read properties of undefined (reading 'accountId')", kw |-> {}]

\* a method called on the undefined result of Grant.find
ErrReadMethod(m) ==
    [text |-> "Cannot read properties of undefined (reading '" \o m \o "')",
     kw |-> IF m \in {"addOIDCScope", "addResourceScope"} THEN {"scope"} ELSE {}]

DescMissing      == "The request is missing a required parameter."
DescClientAuth   == "Client authentication failed."
DescUnauthorized == "The authenticated client is not authorized to use this authorization grant type."
DescUnsupported  == "The authorization grant type is not supported by the authorization server."
DescScope        == "The requested scope is invalid, unknown, or malformed."
DescNotAuthorizedAccount == "This account is not authorized to connect via OAuth."

FixedDescriptions == {DescMissing, DescClientAuth, DescUnauthorized, DescUnsupported,
                      DescScope, DescNotAuthorizedAccount}

OAuthErrorCodes == {"invalid_request", "invalid_client", "invalid_grant",
                    "unauthorized_client", "unsupported_grant_type", "invalid_scope",
                    "access_denied"}

mapErrorToOAuthCodeUnauthorizedFirst(error) ==
    IF "missing" \in error.kw \/ "required" \in error.kw
    THEN [code |-> "invalid_request", description |-> DescMissing]
    ELSE IF "unauthorized" \in error.kw
    THEN [code |-> "unauthorized_client", description |-> DescUnauthorized]
    ELSE IF "client" \in error.kw /\ "auth" \in error.kw
    THEN [code |-> "invalid_client", description |-> DescClientAuth]
    ELSE IF "grant type" \in error.kw \/ "unsupported" \in error.kw
    THEN [code |-> "unsupported_grant_type", description |-> DescUnsupported]
    ELSE IF "grant" \in error.kw \/ "expired" \in error.kw \/ "revoked" \in error.kw
    THEN [code |-> "invalid_grant", description |-> error.text]
    ELSE IF "scope" \in error.kw
    THEN [code |-> "invalid_scope", description |-> DescScope]
    ELSE [code |-> "invalid_request", description |-> error.text]

mapErrorToOAuthCode(error) ==
    IF "missing" \in error.kw \/ "required" \in error.kw
    THEN [code |-> "invalid_request", description |-> DescMissing]
    ELSE IF "client" \in error.kw /\ "auth" \in error.kw
    THEN [code |-> "invalid_client", description |-> DescClientAuth]
    ELSE IF "grant" \in error.kw \/ "expired" \in error.kw \/ "revoked" \in error.kw
    THEN [code |-> "invalid_grant", description |-> error.text]
    ELSE IF "unauthorized" \in error.kw
    THEN [code |-> "unauthorized_client", description |-> DescUnauthorized]
    ELSE IF "grant type" \in error.kw \/ "unsupported" \in error.kw
    THEN [code |-> "unsupported_grant_type", description |-> DescUnsupported]
    ELSE IF "scope" \in error.kw
    THEN [code |-> "invalid_scope", description |-> DescScope]
    ELSE [code |-> "invalid_request", description |-> error.text]

(***************************************************************************)
(* Responses.  A redirect is its target and the query parameters appended  *)
(* to it, as <<name, value>> pairs.                                        *)
(***************************************************************************)
NoResp == [status |-> 0, kind |-> "none", target |-> "none", query |-> {},
           body |-> "none", prompt |-> "none", formError |-> "none", email |-> "none"]

TextResp(status, body) == [NoResp EXCEPT !.status = status, !.kind = "text", !.body = body]

\* res.render( "interaction", { uid, prompt, scopes, error, email } )
RenderResp(prompt, formError, email) ==
    [NoResp EXCEPT !.status = 200, !.kind = "render", !.body = "interaction",
                   !.prompt = prompt, !.formError = formError, !.email = email]

RedirectResp(target, query) ==
    [NoResp EXCEPT !.status = 303, !.kind = "redirect", !.target = target, !.query = query]

redirectWithOAuthError(redirectUri, state, errorCode, errorDescription) ==
    RedirectResp(redirectUri,
        {<<"error", errorCode>>}
        \cup (IF errorDescription # "" THEN {<<"error_description", errorDescription>>} ELSE {})
        \cup (IF state # "" THEN {<<"state", state>>} ELSE {}))

Param(resp, name) == {p[2] : p \in {q \in resp.query : q[1] = name}}

(***************************************************************************)
(* The OIDC engine (oidc-provider with its in-memory adapter) as the       *)
(* handlers see it: one pending interaction, the browser's authentication  *)
(* session, the grant store and the authorization codes issued.            *)
(***************************************************************************)
API_AUDIENCE == "api://my-api"

GrantIds == 1..MaxGrants
NoGrantId == 0

NoResult == [login |-> "none", consent |-> NoGrantId]

NoInteraction ==
    [live |-> FALSE, prompt |-> "none", client_id |-> "none", redirect_uri |-> "none",
     state |-> "", scope |-> {}, claims |-> {}, accountId |-> "none",
     grantId |-> NoGrantId, missingOIDCScopes |-> {}, missingOIDCClaims |-> {},
     missingResourceScopes |-> {}, lastSubmission |-> NoResult, result |-> NoResult]

NoSession == [accountId |-> "none", grantId |-> NoGrantId]

\* A grant: what accountId approved for clientId.  resources is the scope set
\* approved for the resource indicator API_AUDIENCE.
NoGrant   == [accountId |-> "none", clientId |-> "none",
              openid |-> {}, claims |-> {}, resources |-> {}]
LostGrant == [NoGrant EXCEPT !.accountId = "expired"]

GrantExists(g) == g \in GrantIds /\ grants[g] \notin {NoGrant, LostGrant}

\* Grant ids are never reused.
FreeGrantIds == {g \in GrantIds : grants[g] = NoGrant}
NewGrantId == CHOOSE g \in FreeGrantIds : \A h \in FreeGrantIds : g <= h

\* Authorization requests: the state, scope and claims parameters.
AuthRequests ==
    {[state |-> "",    scope |-> {},                  claims |-> {}],
     [state |-> "",    scope |-> {"openid"},          claims |-> {}],
     [state |-> "xyz", scope |-> {"openid"},          claims |-> {}],
     [state |-> "xyz", scope |-> {"openid", "email"}, claims |-> {"email"}]}

GrantedOf(g) == IF GrantExists(g) THEN grants[g] ELSE NoGrant

\* The engine's consent check: what the request asks for and the grant lacks.
MissingFor(scope, claims, g) ==
    [scopes    |-> scope \ GrantedOf(g).openid,
     claims    |-> claims \ GrantedOf(g).claims,
     resScopes |-> scope \ GrantedOf(g).resources]

NothingMissing(scope, claims, g) ==
    /\ GrantExists(g)
    /\ MissingFor(scope, claims, g) = [scopes |-> {}, claims |-> {}, resScopes |-> {}]

ConsentPrompt(ix, accountId, g, last) ==
    LET m == MissingFor(ix.scope, ix.claims, g)
    IN  [ix EXCEPT !.live = TRUE, !.prompt = "consent", !.accountId = accountId,
                   !.grantId = IF GrantExists(g) THEN g ELSE NoGrantId,
                   !.missingOIDCScopes = m.scopes,
                   !.missingOIDCClaims = m.claims,
                   !.missingResourceScopes = m.resScopes,
                   !.lastSubmission = last, !.result = NoResult]

Reqs == {"r1", "r2"}

InFlight(r) == req[r].pc \notin {"idle", "done"}
Idle(r)     == req[r].pc = "idle"
\* No request is being handled, and every response has left.
Quiet       == \A r \in Reqs : Idle(r)
\* No finished response is still waiting to leave.
Delivered   == \A r \in Reqs : req[r].pc # "done"

\* GET /auth: the engine starts an interaction when a prompt is outstanding,
\* and answers with a code at once when the session and its grant suffice.
StartAuth ==
    /\ phase = "listening"
    /\ Quiet
    /\ flows < MaxFlows
    /\ flows' = flows + 1
    /\ \E a \in AuthRequests :
          LET st == a.state
              sc == a.scope
              cl == a.claims
              base == [NoInteraction EXCEPT !.client_id = "dev-rp",
                                            !.redirect_uri = DefaultRedirectUri,
                                            !.state = st, !.scope = sc, !.claims = cl]
          IN  IF session.accountId = "none"
              THEN /\ interaction' = [base EXCEPT !.live = TRUE, !.prompt = "login"]
                   /\ UNCHANGED codes
              ELSE IF NothingMissing(sc, cl, session.grantId)
              THEN /\ interaction' = NoInteraction
                   /\ codes' = codes \cup {[accountId |-> session.accountId,
                                            grantId |-> session.grantId]}
              ELSE /\ interaction' = ConsentPrompt(base, session.accountId,
                                                   session.grantId, NoResult)
                   /\ UNCHANGED codes
    /\ UNCHANGED <<session, grants, req>>
    /\ UNCHANGED regVars
    /\ UNCHANGED fnVars
    /\ UNCHANGED rpVars

\* The browser follows the redirect interactionResult returned: the engine
\* consumes the submitted result and moves to the next prompt or issues the code.
Resume ==
    /\ interaction.live
    /\ Quiet
    /\ interaction.result # NoResult
    /\ LET res == interaction.result
           acct == IF res.login # "none" THEN res.login ELSE interaction.accountId
           g == IF res.consent # NoGrantId THEN res.consent
                ELSE IF acct = session.accountId THEN session.grantId ELSE NoGrantId
       IN  /\ session' = [accountId |-> acct,
                          grantId |-> IF GrantExists(g) THEN g ELSE NoGrantId]
           /\ IF NothingMissing(interaction.scope, interaction.claims, g)
              THEN /\ codes' = codes \cup {[accountId |-> acct, grantId |-> g]}
                   /\ interaction' = NoInteraction
              ELSE /\ interaction' = ConsentPrompt(interaction, acct, g, res)
                   /\ UNCHANGED codes
    /\ UNCHANGED <<grants, flows, req>>
    /\ UNCHANGED regVars
    /\ UNCHANGED fnVars
    /\ UNCHANGED rpVars

\* The interaction's TTL runs out (or the browser lost its cookie).
Expire ==
    /\ interaction.live
    /\ Delivered
    /\ interaction' = NoInteraction
    /\ UNCHANGED <<session, grants, codes, flows, req>>
    /\ UNCHANGED regVars
    /\ UNCHANGED fnVars
    /\ UNCHANGED rpVars

\* A stored grant expires or is evicted from the in-memory store.
GrantLost ==
    /\ Delivered
    /\ \E g \in GrantIds :
          /\ GrantExists(g)
          /\ grants' = [grants EXCEPT ![g] = LostGrant]
    /\ UNCHANGED <<interaction, session, codes, flows, req>>
    /\ UNCHANGED regVars
    /\ UNCHANGED fnVars
    /\ UNCHANGED rpVars

(***************************************************************************)
(* Requests.  A handler runs from one await to the next in one step; pc    *)
(* names the await it is parked at.                                        *)
(***************************************************************************)
NoReq == [kind |-> "none", pc |-> "idle", uid |-> <<>>, uidOk |-> TRUE,
          engineCalls |-> 0, email |-> "none",
          password |-> "", error |-> NoError, details |-> NoInteraction,
          grant |-> NoGrant, grantDefined |-> FALSE, finalGrantId |-> NoGrantId,
          saves |-> 0, resp |-> NoResp]

ReturnTo == "/auth/resume"

InvalidUidResp == TextResp(400, "Invalid interaction identifier")
GenericErrorResp == TextResp(400, "Invalid or expired interaction")

Done(q, resp) == [q EXCEPT !.pc = "done", !.resp = resp,
                           !.details = NoInteraction, !.grant = NoGrant,
                           !.grantDefined = FALSE]

Throw(q, error) == [q EXCEPT !.pc = "catch", !.error = error,
                             !.details = NoInteraction, !.grant = NoGrant,
                             !.grantDefined = FALSE]

\* provider.interactionResult( req, res, result, { mergeWithLastSubmission } ):
\* the result stored on the interaction.
interactionResultNoMerge(ix, result, mergeWithLastSubmission) == result

interactionResult(ix, result, mergeWithLastSubmission) ==
    IF mergeWithLastSubmission
    THEN [login   |-> IF result.login # "none" THEN result.login
                      ELSE ix.lastSubmission.login,
          consent |-> IF result.consent # NoGrantId THEN result.consent
                      ELSE ix.lastSubmission.consent]
    ELSE result

\* The catch block shared by GET details, login and confirm.
CatchResponse500(error) == TextResp(500, error.text)

CatchResponse(error) ==
    IF interaction.live
    THEN LET m == mapErrorToOAuthCode(error)
         IN  redirectWithOAuthError(interaction.redirect_uri, interaction.state,
                                    m.code, m.description)
    ELSE GenericErrorResp

Catch(r) ==
    /\ req[r].pc = "catch"
    /\ req' = [req EXCEPT ![r] =
           Done([req[r] EXCEPT !.engineCalls = @ + 1], CatchResponse(req[r].error))]
    /\ UNCHANGED <<interaction, session, grants, codes, flows>>
    /\ UNCHANGED regVars
    /\ UNCHANGED fnVars
    /\ UNCHANGED rpVars

\* The response leaves and the handler returns.
Respond(r) ==
    /\ req[r].pc = "done"
    /\ req' = [req EXCEPT ![r] = NoReq]
    /\ UNCHANGED <<interaction, session, grants, codes, flows>>
    /\ UNCHANGED regVars
    /\ UNCHANGED fnVars
    /\ UNCHANGED rpVars

\* GET /interaction/:uid
GetInteraction(r) ==
    /\ phase = "listening"
    /\ Quiet
    /\ \E uid \in Uids :
          LET q0 == [NoReq EXCEPT !.kind = "get", !.uid = uid,
                                  !.uidOk = validateInteractionUid(uid)]
              q  == [q0 EXCEPT !.engineCalls = 1]
          IN  req' = [req EXCEPT ![r] =
                  IF ~validateInteractionUid(uid) THEN Done(q0, InvalidUidResp)
                  ELSE IF interaction.live
                  THEN Done(q, RenderResp(interaction.prompt, "none", "none"))
                  ELSE Throw(q, ErrSessionNotFound)]
    /\ UNCHANGED <<interaction, session, grants, codes, flows>>
    /\ UNCHANGED regVars
    /\ UNCHANGED fnVars
    /\ UNCHANGED rpVars

LoginBadCredentialsRespEchoPassword(email, password) ==
    RenderResp("login", "Invalid email or password. Please try again.", password)

LoginBadCredentialsResp(email, password) ==
    RenderResp("login", "Invalid email or password. Please try again.", email)

LoginBlockedRespAsSuccess(ix) == RedirectResp(ReturnTo, {})

LoginBlockedResp(ix) ==
    redirectWithOAuthError(ix.redirect_uri, ix.state, "unauthorized_client",
                           DescNotAuthorizedAccount)

LoginOutcomeUnknownEmail(ix, email, password) ==
    LET em    == emailTransform(email)
        found == em \in DOMAIN USERS
        none  == [threw |-> FALSE, resp |-> NoResp, submit |-> NoResult]
    IN  IF ~ix.live
        THEN [none EXCEPT !.threw = TRUE]
        ELSE IF ~loginSchemaOk(email, password)
        THEN [none EXCEPT !.resp =
                 RenderResp("login", "Invalid email or password format.", email)]
        ELSE IF ~found
        THEN [none EXCEPT !.resp = RenderResp("login", "Unknown email address.", em)]
        ELSE IF ~secureComparePasswords(password, USERS[em].password)
        THEN [none EXCEPT !.resp = LoginBadCredentialsResp(em, password)]
        ELSE IF ~USERS[em].oauthAuthorized
        THEN [none EXCEPT !.resp = LoginBlockedResp(ix)]
        ELSE [none EXCEPT !.resp = RedirectResp(ReturnTo, {}),
                          !.submit = [login |-> USERS[em].id, consent |-> NoGrantId]]

LoginOutcomeNoAuthorizedCheck(ix, email, password) ==
    LET em    == emailTransform(email)
        found == em \in DOMAIN USERS
        none  == [threw |-> FALSE, resp |-> NoResp, submit |-> NoResult]
    IN  IF ~ix.live
        THEN [none EXCEPT !.threw = TRUE]
        ELSE IF ~loginSchemaOk(email, password)
        THEN [none EXCEPT !.resp =
                 RenderResp("login", "Invalid email or password format.", email)]
        ELSE IF ~found \/ ~secureComparePasswords(password, USERS[em].password)
        THEN [none EXCEPT !.resp = LoginBadCredentialsResp(em, password)]
        ELSE [none EXCEPT !.resp = RedirectResp(ReturnTo, {}),
                          !.submit = [login |-> USERS[em].id, consent |-> NoGrantId]]

\* What the login handler does once the uid passed: the response (or the error
\* thrown) and the login result submitted to the engine, if any.
LoginOutcome(ix, email, password) ==
    LET em    == emailTransform(email)
        found == em \in DOMAIN USERS
        none  == [threw |-> FALSE, resp |-> NoResp, submit |-> NoResult]
    IN  IF ~ix.live
        THEN [none EXCEPT !.threw = TRUE]
        ELSE IF ~loginSchemaOk(email, password)
        THEN [none EXCEPT !.resp =
                 RenderResp("login", "Invalid email or password format.", email)]
        ELSE IF ~found \/ ~secureComparePasswords(password, USERS[em].password)
        THEN [none EXCEPT !.resp = LoginBadCredentialsResp(em, password)]
        ELSE IF ~USERS[em].oauthAuthorized
        THEN [none EXCEPT !.resp = LoginBlockedResp(ix)]
        ELSE [none EXCEPT !.resp = RedirectResp(ReturnTo, {}),
                          !.submit = [login |-> USERS[em].id, consent |-> NoGrantId]]

\* POST /interaction/:uid/login
LoginSubmit(r) ==
    /\ phase = "listening"
    /\ Quiet
    /\ \E uid \in Uids, email \in Emails, password \in Passwords :
          LET q0 == [NoReq EXCEPT !.kind = "login", !.uid = uid,
                                  !.email = email, !.password = password,
                                  !.uidOk = validateInteractionUid(uid)]
              q  == [q0 EXCEPT !.engineCalls = 1]
              o == LoginOutcome(interaction, email, password)
          IN  IF ~validateInteractionUid(uid)
              THEN /\ req' = [req EXCEPT ![r] =
                          Done([q0 EXCEPT !.email = "none", !.password = ""],
                               InvalidUidResp)]
                   /\ UNCHANGED interaction
              ELSE IF o.threw
              THEN /\ req' = [req EXCEPT ![r] = Throw(q, ErrSessionNotFound)]
                   /\ UNCHANGED interaction
              ELSE /\ req' = [req EXCEPT ![r] = Done(q, o.resp)]
                   /\ interaction' =
                        IF o.submit = NoResult THEN interaction
                        ELSE [interaction EXCEPT !.result =
                                 interactionResult(interaction, o.submit, FALSE)]
    /\ UNCHANGED <<session, grants, codes, flows>>
    /\ UNCHANGED regVars
    /\ UNCHANGED fnVars
    /\ UNCHANGED rpVars

CancelRespNoState(ix) ==
    RedirectResp(ix.redirect_uri, {<<"error", "access_denied">>})

CancelResp(ix) ==
    RedirectResp(ix.redirect_uri,
        {<<"error", "access_denied">>}
        \cup (IF ix.state # "" THEN {<<"state", ix.state>>} ELSE {}))

\* The cancel handler has no try/catch: a rejected interactionDetails leaves the
\* async handler as an unhandled rejection.  Depending on the framework version
\* and NODE_ENV the browser gets no answer at all, the default error page with
\* the error's stack, or the bare status text.
UnhandledOutcomes ==
    {[NoResp EXCEPT !.kind = "unhandled"],
     [NoResp EXCEPT !.kind = "unhandled", !.status = 400, !.body = "error stack"],
     [NoResp EXCEPT !.kind = "unhandled", !.status = 400, !.body = "Bad Request"]}

\* POST /interaction/:uid/cancel
CancelSubmit(r) ==
    /\ phase = "listening"
    /\ Quiet
    /\ \E uid \in Uids, out \in UnhandledOutcomes :
          LET q0 == [NoReq EXCEPT !.kind = "cancel", !.uid = uid,
                                  !.uidOk = validateInteractionUid(uid)]
              q  == [q0 EXCEPT !.engineCalls = 1]
          IN  req' = [req EXCEPT ![r] =
                  IF ~validateInteractionUid(uid) THEN Done(q0, InvalidUidResp)
                  ELSE IF interaction.live THEN Done(q, CancelResp(interaction))
                  ELSE Done([q EXCEPT !.error = ErrSessionNotFound], out)]
    /\ UNCHANGED <<interaction, session, grants, codes, flows>>
    /\ UNCHANGED regVars
    /\ UNCHANGED fnVars
    /\ UNCHANGED rpVars

\* grant.addOIDCScope / addOIDCClaims / addResourceScope: set union.
addOIDCScope(grant, scopes)     == [grant EXCEPT !.openid = @ \cup scopes]
addOIDCClaims(grant, claims)    == [grant EXCEPT !.claims = @ \cup claims]
addResourceScope(grant, scopes) == [grant EXCEPT !.resources = @ \cup scopes]

GrantAdditionsReplace(grant, details) ==
    [grant EXCEPT !.openid = details.scope \cup details.missingOIDCScopes,
                  !.claims = details.missingOIDCClaims,
                  !.resources = details.missingResourceScopes]

\* Lines 671-708 of the confirm handler: the grant after the additions.
GrantAdditions(grant, details) ==
    LET g1 == IF details.scope # {} THEN addOIDCScope(grant, details.scope) ELSE grant
        g2 == IF details.missingOIDCScopes # {}
              THEN addOIDCScope(g1, details.missingOIDCScopes) ELSE g1
        g3 == IF details.missingOIDCClaims # {}
              THEN addOIDCClaims(g2, details.missingOIDCClaims) ELSE g2
        g4 == IF details.missingResourceScopes # {}
              THEN addResourceScope(g3, details.missingResourceScopes) ELSE g3
    IN  g4

\* The first method the handler calls on the grant object.
FirstGrantMethod(details) ==
    IF details.scope # {} \/ details.missingOIDCScopes # {} THEN "addOIDCScope"
    ELSE IF details.missingOIDCClaims # {} THEN "addOIDCClaims"
    ELSE IF details.missingResourceScopes # {} THEN "addResourceScope"
    ELSE "save"

\* POST /interaction/:uid/confirm, up to the await after interactionDetails.
ConfirmEnter(r) ==
    /\ phase = "listening"
    /\ \E uid \in Uids :
          LET q0 == [NoReq EXCEPT !.kind = "confirm", !.uid = uid,
                                  !.uidOk = validateInteractionUid(uid)]
              q  == [q0 EXCEPT !.engineCalls = 1]
          IN  req' = [req EXCEPT ![r] =
                  IF ~validateInteractionUid(uid) THEN Done(q0, InvalidUidResp)
                  ELSE IF ~interaction.live THEN Throw(q, ErrSessionNotFound)
                  ELSE IF interaction.grantId # NoGrantId
                  THEN [q EXCEPT !.pc = "find", !.details = interaction]
                  ELSE IF interaction.accountId = "none"
                  THEN Throw(q, ErrReadAccountId)
                  ELSE [q EXCEPT !.pc = "save", !.details = interaction,
                                 !.grantDefined = TRUE,
                                 !.grant = [NoGrant EXCEPT
                                               !.accountId = interaction.accountId,
                                               !.clientId = interaction.client_id]]]
    /\ UNCHANGED <<interaction, session, grants, codes, flows>>
    /\ UNCHANGED regVars
    /\ UNCHANGED fnVars
    /\ UNCHANGED rpVars

\* The confirm requests parked before grant.save() that will store a new grant.
SavingNew == {s \in Reqs : req[s].pc = "save" /\ req[s].grantDefined
                            /\ req[s].details.grantId = NoGrantId}

\* One request at a time: the browser submits after the previous response.
ConfirmSubmit(r) ==
    /\ Quiet
    /\ (interaction.live /\ interaction.grantId = NoGrantId) => FreeGrantIds # {}
    /\ ConfirmEnter(r)

\* A second submission of the consent form (a double click, a second tab)
\* arrives while another confirm request is parked at an await.
ConfirmSubmitInterleaved(r) ==
    /\ Idle(r)
    /\ \E s \in Reqs : s # r /\ req[s].kind = "confirm" /\ InFlight(s)
    /\ Cardinality(FreeGrantIds) > Cardinality(SavingNew)
    /\ ConfirmEnter(r)

\* await provider.Grant.find( grantId )
ConfirmFind(r) ==
    /\ req[r].pc = "find"
    /\ LET g == req[r].details.grantId
       IN  req' = [req EXCEPT ![r] =
               IF GrantExists(g)
               THEN [req[r] EXCEPT !.pc = "save", !.engineCalls = @ + 1,
                                   !.grant = grants[g],
                                   !.grantDefined = TRUE]
               ELSE [req[r] EXCEPT !.pc = "save", !.engineCalls = @ + 1,
                                   !.grantDefined = FALSE]]
    /\ UNCHANGED <<interaction, session, grants, codes, flows>>
    /\ UNCHANGED regVars
    /\ UNCHANGED fnVars
    /\ UNCHANGED rpVars

\* The additions and await grant.save()
ConfirmSave(r) ==
    /\ req[r].pc = "save"
    /\ IF ~req[r].grantDefined
       THEN /\ req' = [req EXCEPT ![r] =
                   Throw(req[r], ErrReadMethod(FirstGrantMethod(req[r].details)))]
            /\ UNCHANGED grants
       ELSE LET id == IF req[r].details.grantId # NoGrantId
                      THEN req[r].details.grantId ELSE NewGrantId
            IN  /\ grants' = [grants EXCEPT ![id] =
                                 GrantAdditions(req[r].grant, req[r].details)]
                /\ req' = [req EXCEPT ![r] =
                       [req[r] EXCEPT !.pc = "resolve", !.finalGrantId = id,
                                      !.saves = @ + 1, !.engineCalls = @ + 1]]
    /\ UNCHANGED <<interaction, session, codes, flows>>
    /\ UNCHANGED regVars
    /\ UNCHANGED fnVars
    /\ UNCHANGED rpVars

\* await provider.interactionResult( ..., { mergeWithLastSubmission: true } )
ConfirmResolve(r) ==
    /\ req[r].pc = "resolve"
    /\ IF interaction.live
       THEN /\ interaction' = [interaction EXCEPT !.result =
                  interactionResult(interaction,
                      [login |-> "none", consent |-> req[r].finalGrantId], TRUE)]
            /\ req' = [req EXCEPT ![r] =
                   Done([req[r] EXCEPT !.engineCalls = @ + 1], RedirectResp(ReturnTo, {}))]
       ELSE /\ req' = [req EXCEPT ![r] =
                   Throw([req[r] EXCEPT !.engineCalls = @ + 1], ErrSessionNotFound)]
            /\ UNCHANGED interaction
    /\ UNCHANGED <<session, grants, codes, flows>>
    /\ UNCHANGED regVars
    /\ UNCHANGED fnVars
    /\ UNCHANGED rpVars

(***************************************************************************)
(* The client application (apps/app).  ensureConfig discovers the issuer   *)
(* lazily; a discovery loop is the promise stored in configInitPromise.    *)
(* A step runs from one timer or network event to the next, the promise    *)
(* reactions it queues included: when a loop settles, the continuations of *)
(* the callers awaiting it run before any new request is taken.            *)
(***************************************************************************)
MaxLoops == 2
maxAttempts == 30

Callers == {"c1", "c2"}
PromiseIds == 1..MaxLoops
NoPromiseId == 0

\* A loop: its promise's state and, while it runs, its local attempt counter.
NoPromise == [state |-> "none", attempt |-> 0]

InFlightLoop(p) == promises[p].state \in {"discovering", "delay"}
FreePromiseIds == {p \in PromiseIds : promises[p].state = "none"}
NewPromiseId == CHOOSE p \in FreePromiseIds : \A q \in FreePromiseIds : p <= q

\* URLSearchParams.get: null when the parameter is absent.
Null == "null"
Truthy(v) == v \notin {Null, ""}

ErrorParams == {Null, "", "access_denied"}
CodeParams  == {Null, "", "c1"}
StateParams == {Null, "s1", "s2"}

\* The "oidc" cookie: absent, not JSON (or JSON null), or an object whose
\* state and code_verifier may be missing ("").
UnreadCookie == [kind |-> "unread", state |-> "", code_verifier |-> ""]
OidcCookies ==
    {[kind |-> "absent", state |-> "", code_verifier |-> ""],
     [kind |-> "malformed", state |-> "", code_verifier |-> ""]}
    \cup [kind : {"json"}, state : {"", "s1"}, code_verifier : {"", "v1"}]

Routes == {"login", "callback"}

NoCaller == [pc |-> "idle", route |-> "none", promise |-> NoPromiseId, outcome |-> "none",
             error |-> "unread", code |-> "unread", state |-> "unread",
             cookie |-> UnreadCookie, exchange |-> "none", tokensCookie |-> FALSE,
             status |-> 0, body |-> "none"]

\* The first two lines of ensureConfig.
ensureConfigEntryNoJoin(cfg, promise) ==
    IF cfg # "undefined" THEN "return" ELSE "create"

ensureConfigEntry(cfg, promise) ==
    IF cfg # "undefined" THEN "return"
    ELSE IF promise # NoPromiseId THEN "join"
    ELSE "create"

\* A request arrives on a route that starts with await ensureConfig().
Request(c) ==
    /\ caller[c].pc = "idle"
    /\ \E route \in Routes :
          /\ route = "callback" => \A d \in Callers \ {c} : caller[d].route # "callback"
          /\ LET e == ensureConfigEntry(config, configInitPromise)
                 q == [NoCaller EXCEPT !.route = route]
             IN  CASE e = "return" ->
                        /\ caller' = [caller EXCEPT ![c] =
                               [q EXCEPT !.pc = "route", !.outcome = "config"]]
                        /\ UNCHANGED <<configInitPromise, promises>>
                   [] e = "join" ->
                        /\ caller' = [caller EXCEPT ![c] =
                               [q EXCEPT !.pc = "ensure", !.promise = configInitPromise]]
                        /\ UNCHANGED <<configInitPromise, promises>>
                   [] e = "create" ->
                        /\ FreePromiseIds # {}
                        /\ promises' = [promises EXCEPT ![NewPromiseId] =
                               [state |-> "discovering", attempt |-> 1]]
                        /\ configInitPromise' = NewPromiseId
                        /\ caller' = [caller EXCEPT ![c] =
                               [q EXCEPT !.pc = "ensure", !.promise = NewPromiseId]]
    /\ UNCHANGED <<issuerUp, config>>
    /\ UNCHANGED tokVars
    /\ UNCHANGED regVars
    /\ UNCHANGED ixVars
    /\ UNCHANGED fnVars

\* The callers awaiting promise p continue with its outcome.
Resumed(p, outcome) ==
    [c \in Callers |->
        IF caller[c].pc = "ensure" /\ caller[c].promise = p
        THEN [caller[c] EXCEPT !.pc = "route", !.outcome = outcome]
        ELSE caller[c]]

\* client.discovery settles: the loop returns the configuration, or catches
\* the error and starts the delay.  When the loop returns, the creator's
\* finally clears configInitPromise.
DiscoveryResponds(p) ==
    /\ promises[p].state = "discovering"
    /\ IF issuerUp
       THEN /\ config' = "configuration"
            /\ promises' = [promises EXCEPT ![p] = [state |-> "fulfilled", attempt |-> 0]]
            /\ configInitPromise' = NoPromiseId
            /\ caller' = Resumed(p, "config")
       ELSE /\ promises' = [promises EXCEPT ![p].state = "delay"]
            /\ UNCHANGED <<config, configInitPromise, caller>>
    /\ UNCHANGED issuerUp
    /\ UNCHANGED tokVars
    /\ UNCHANGED regVars
    /\ UNCHANGED ixVars
    /\ UNCHANGED fnVars

\* await delay( backoffMs ) is over: the next attempt, or throw lastError.
DelayElapses(p) ==
    /\ promises[p].state = "delay"
    /\ IF promises[p].attempt < maxAttempts
       THEN /\ promises' = [promises EXCEPT ![p] =
                   [state |-> "discovering", attempt |-> promises[p].attempt + 1]]
            /\ UNCHANGED <<configInitPromise, caller>>
       ELSE /\ promises' = [promises EXCEPT ![p] = [state |-> "rejected", attempt |-> 0]]
            /\ configInitPromise' = NoPromiseId
            /\ caller' = Resumed(p, "threw")
    /\ UNCHANGED <<issuerUp, config>>
    /\ UNCHANGED tokVars
    /\ UNCHANGED regVars
    /\ UNCHANGED ixVars
    /\ UNCHANGED fnVars

\* GET /callback after ensureConfig returned: what the checks decide.
CallbackDecisionNoStateCheck(error, code, state, cookie) ==
    IF cookie.kind = "malformed" THEN "throw"
    ELSE IF Truthy(error) THEN "cancelled"
    ELSE IF cookie.code_verifier = "" THEN "throw"
    ELSE IF cookie.state = "" THEN "throw"
    ELSE IF ~Truthy(code) THEN "throw"
    ELSE "exchange"

CallbackDecision(error, code, state, cookie) ==
    IF cookie.kind = "malformed" THEN "throw"
    ELSE IF Truthy(error) THEN "cancelled"
    ELSE IF cookie.code_verifier = "" THEN "throw"
    ELSE IF cookie.state = "" THEN "throw"
    ELSE IF ~Truthy(code) THEN "throw"
    ELSE IF state # cookie.state THEN "throw"
    ELSE "exchange"

Answered(q, status, body) == [q EXCEPT !.pc = "done", !.status = status, !.body = body]

\* The route handler continues after await ensureConfig().  /login has no
\* try/catch: a rejection leaves the handler unanswered or, where the
\* framework forwards it, as a 500.
RouteContinue(c) ==
    /\ caller[c].pc = "route"
    /\ LET q == caller[c]
       IN  IF q.route = "login"
           THEN IF q.outcome = "config"
                THEN caller' = [caller EXCEPT ![c] = Answered(q, 302, "authorization url")]
                ELSE \E st \in {0, 500} :
                        caller' = [caller EXCEPT ![c] = Answered(q, st, "unhandled")]
           ELSE IF q.outcome = "threw"
                THEN caller' = [caller EXCEPT ![c] = Answered(q, 400, "error json")]
                ELSE \E error \in ErrorParams, code \in CodeParams,
                        state \in StateParams, cookie \in OidcCookies :
                        LET q1 == [q EXCEPT !.error = error, !.code = code,
                                            !.state = state, !.cookie = cookie]
                            d == CallbackDecision(error, code, state, cookie)
                        IN  caller' = [caller EXCEPT ![c] =
                                CASE d = "cancelled" ->
                                       Answered(q1, 400, "Authorization Cancelled")
                                  [] d = "throw" -> Answered(q1, 400, "error json")
                                  [] d = "exchange" ->
                                       [q1 EXCEPT !.pc = "exchange", !.exchange = "started"]]
    /\ UNCHANGED <<issuerUp, config, configInitPromise, promises>>
    /\ UNCHANGED tokVars
    /\ UNCHANGED regVars
    /\ UNCHANGED ixVars
    /\ UNCHANGED fnVars

\* client.authorizationCodeGrant settles: the tokens cookie and the redirect,
\* or the catch block.
ExchangeReturns(c) ==
    /\ caller[c].pc = "exchange"
    /\ \E ok \in BOOLEAN :
          caller' = [caller EXCEPT ![c] =
              IF ok
              THEN Answered([caller[c] EXCEPT !.exchange = "succeeded",
                                              !.tokensCookie = TRUE],
                            302, "/api-explorer")
              ELSE Answered([caller[c] EXCEPT !.exchange = "failed"], 400, "error json")]
    /\ UNCHANGED <<issuerUp, config, configInitPromise, promises>>
    /\ UNCHANGED tokVars
    /\ UNCHANGED regVars
    /\ UNCHANGED ixVars
    /\ UNCHANGED fnVars

\* The response leaves.
Finish(c) ==
    /\ caller[c].pc = "done"
    /\ caller' = [caller EXCEPT ![c] = NoCaller]
    /\ UNCHANGED <<issuerUp, config, configInitPromise, promises>>
    /\ UNCHANGED tokVars
    /\ UNCHANGED regVars
    /\ UNCHANGED ixVars
    /\ UNCHANGED fnVars

\* The issuer (or the proxy in front of it) comes up or goes down.
IssuerChanges ==
    /\ issuerUp' = ~issuerUp
    /\ UNCHANGED <<config, configInitPromise, promises, caller>>
    /\ UNCHANGED tokVars
    /\ UNCHANGED regVars
    /\ UNCHANGED ixVars
    /\ UNCHANGED fnVars

\* The token endpoint of the engine: no authorization request yet.
NoTokenFlow == [leg |-> "none", scopes |-> {}, authSupplied |-> FALSE,
                resource |-> "none", refreshToken |-> FALSE, tokens |-> <<>>]

(***************************************************************************)
(* Specifications.                                                         *)
(***************************************************************************)
\* No helper has been called.
NoCall == [fn |-> "none"]

IxInit ==
    /\ interaction = NoInteraction
    /\ session = NoSession
    /\ grants = [g \in GrantIds |-> NoGrant]
    /\ codes = {}
    /\ flows = 0
    /\ req = [r \in Reqs |-> NoReq]
    /\ call = NoCall
    /\ issuerUp = FALSE
    /\ config = "undefined"
    /\ configInitPromise = NoPromiseId
    /\ promises = [p \in PromiseIds |-> NoPromise]
    /\ caller = [c \in Callers |-> NoCaller]
    /\ tokenFlow = NoTokenFlow

\* Start-up from any configuration of the two client sources.
InitRegistry ==
    /\ envOIDC_CLIENTS \in EnvValues
    /\ clientsFile \in FileValues
    /\ envREDIRECT_URI = "unread"
    /\ envJWKS = [kind |-> "unread", value |-> <<>>]
    /\ phase = "boot"
    /\ startupError = NoStartupError
    /\ clientSource = "none"
    /\ OIDC_CLIENTS = <<>>
    /\ JWKS = NoJWKS
    /\ FORCE_REFRESH_CLIENT_ID_SET = {}
    /\ SANITIZED_CLIENTS = <<>>
    /\ lastIssue = NoIssue
    /\ IxInit

NextRegistry ==
    \/ StartupLoadClients
    \/ StartupLoadJWKS
    \/ StartupSanitize
    \/ StartupProvider
    \/ StartupListen
    \/ TokenRequest

SpecRegistry == InitRegistry /\ [][NextRegistry]_vars

\* The server listening with the default single client.
DefaultClients == loadOIDCClients([kind |-> "unset", value |-> <<>>],
                                  [kind |-> "absent", value |-> <<>>],
                                  DefaultRedirectUri).data

Init ==
    /\ envOIDC_CLIENTS = [kind |-> "unset", value |-> <<>>]
    /\ clientsFile = [kind |-> "absent", value |-> <<>>]
    /\ envREDIRECT_URI = DefaultRedirectUri
    /\ envJWKS = [kind |-> "unset", value |-> <<>>]
    /\ phase = "listening"
    /\ startupError = NoStartupError
    /\ clientSource = "fallback"
    /\ OIDC_CLIENTS = DefaultClients
    /\ JWKS = NoJWKS
    /\ FORCE_REFRESH_CLIENT_ID_SET = ForceRefreshSet(DefaultClients)
    /\ SANITIZED_CLIENTS = SanitizedClients(DefaultClients)
    /\ lastIssue = NoIssue
    /\ IxInit

Next ==
    \/ StartAuth
    \/ Resume
    \/ Expire
    \/ GrantLost
    \/ \E r \in Reqs : GetInteraction(r)
    \/ \E r \in Reqs : LoginSubmit(r)
    \/ \E r \in Reqs : ConfirmSubmit(r)
    \/ \E r \in Reqs : ConfirmFind(r)
    \/ \E r \in Reqs : ConfirmSave(r)
    \/ \E r \in Reqs : ConfirmResolve(r)
    \/ \E r \in Reqs : CancelSubmit(r)
    \/ \E r \in Reqs : Catch(r)
    \/ \E r \in Reqs : Respond(r)

Spec == Init /\ [][Next]_vars

\* The same server when a second confirm request may arrive while another is
\* parked at an await.
NextConcurrent ==
    \/ Next
    \/ \E r \in Reqs : ConfirmSubmitInterleaved(r)

SpecConcurrent == Init /\ [][NextConcurrent]_vars

\* A handler that has been entered runs to its response: the event loop
\* resumes every continuation whose await has settled.
SpecLive ==
    /\ Spec
    /\ \A r \in Reqs :
          /\ WF_vars(ConfirmFind(r)) /\ WF_vars(ConfirmSave(r))
          /\ WF_vars(ConfirmResolve(r)) /\ WF_vars(Catch(r)) /\ WF_vars(Respond(r))

(***************************************************************************)
(* The helper functions of the server, each applied to inputs drawn from   *)
(* its domain.                                                             *)
(***************************************************************************)
\* A catch block classifies the error it caught.
ClassifyError ==
    /\ \E m \in ErrorMessages :
          call' = [fn |-> "mapErrorToOAuthCode", message |-> m,
                   result |-> mapErrorToOAuthCode(ErrorOf(m))]
    /\ UNCHANGED regVars
    /\ UNCHANGED ixVars
    /\ UNCHANGED rpVars

\* The engine looks an account up and asks for its claims.
FindAccount ==
    /\ \E sub \in Subjects :
          call' = [fn |-> "findAccount", sub |-> sub, result |-> findAccount(sub)]
    /\ UNCHANGED regVars
    /\ UNCHANGED ixVars
    /\ UNCHANGED rpVars

\* Resource indicators a request carries in its "resource" parameter: the
\* configured audience and two other absolute URIs without fragment.
ResourceIndicators == {API_AUDIENCE, "https://other.example/api", "api://unknown"}

\* The resource servers the configuration knows: the one API of the example.
RegisteredResources == {API_AUDIENCE}

NoResourceServerInfo ==
    [scope |-> {}, audience |-> "none", accessTokenFormat |-> "none", accessTokenTTL |-> 0]

\* apps/auth: the same configuration for whatever indicator is passed.
getResourceServerInfo(resourceIndicator) ==
    [threw |-> FALSE,
     config |-> [scope |-> {"openid", "profile", "email", "offline_access", "accounts:read"},
                 audience |-> API_AUDIENCE,
                 accessTokenFormat |-> "jwt",
                 accessTokenTTL |-> 60 * 60]]

\* apps/op: one indicator is known; no accessTokenTTL is given, so the
\* lifetime is the engine's own (written 0 here: not set by the code).
opGetResourceServerInfo(resourceIndicator) ==
    IF resourceIndicator = "api://my-api"
    THEN [threw |-> FALSE,
          config |-> [scope |-> {"accounts:read"},
                      audience |-> "api://my-api",
                      accessTokenFormat |-> "jwt",
                      accessTokenTTL |-> 0]]
    ELSE [threw |-> TRUE, config |-> NoResourceServerInfo]

\* The engine resolves the indicator of a request and, when the callback
\* returns, mints the access token with aud = the configuration's audience.
ResolveResource ==
    /\ \E resourceIndicator \in ResourceIndicators :
          LET r == getResourceServerInfo(resourceIndicator)
          IN  call' = [fn |-> "getResourceServerInfo", app |-> "auth",
                       resourceIndicator |-> resourceIndicator, result |-> r,
                       aud |-> r.config.audience]
    /\ UNCHANGED regVars
    /\ UNCHANGED ixVars
    /\ UNCHANGED rpVars

OpResolveResource ==
    /\ \E resourceIndicator \in ResourceIndicators :
          LET r == opGetResourceServerInfo(resourceIndicator)
          IN  call' = [fn |-> "getResourceServerInfo", app |-> "op",
                       resourceIndicator |-> resourceIndicator, result |-> r,
                       aud |-> r.config.audience]
    /\ UNCHANGED regVars
    /\ UNCHANGED ixVars
    /\ UNCHANGED rpVars

\* One comparison of a provided password with a stored one.
ComparePasswords ==
    /\ \E provided \in PasswordStrings, stored \in PasswordStrings :
          call' = [fn |-> "secureComparePasswords", provided |-> provided, stored |-> stored,
                   result |-> secureComparePasswords(provided, stored)]
    /\ UNCHANGED regVars
    /\ UNCHANGED ixVars
    /\ UNCHANGED rpVars

NextHelpers ==
    \/ ClassifyError
    \/ FindAccount
    \/ ComparePasswords
    \/ ResolveResource
    \/ OpResolveResource

SpecHelpers == Init /\ [][NextHelpers]_vars

(***************************************************************************)
(* Access tokens across the legs of one flow.  The engine resolves the     *)
(* resource of a token request as the README quotes it from                *)
(* lib/helpers/resolve_resource.js, and mints a token in the format of the *)
(* resource server getResourceServerInfo returns, or an opaque token for   *)
(* the UserInfo endpoint when no resource is resolved.                     *)
(***************************************************************************)
MaxRefreshes == 2

\* Granted scopes of a flow.
TokenScopeSets == SUBSET {"openid", "offline_access", "accounts:read"}

\* The resource parameter of a request: omitted, or the API's indicator.
ResourceParams == {Null, API_AUDIENCE}

defaultResource == API_AUDIENCE
useGrantedResource == TRUE
\* features.userinfo is not configured: the engine's default is enabled.
userinfoEnabled == TRUE

resolveResourceAlwaysGranted(paramsResource, modelResource, scopes) ==
    IF paramsResource # Null THEN paramsResource ELSE modelResource

resolveResource(paramsResource, modelResource, scopes) ==
    IF paramsResource # Null THEN paramsResource
    ELSE IF (~userinfoEnabled \/ "openid" \notin scopes) /\ useGrantedResource
    THEN modelResource
    ELSE Null

\* The access token of a leg: its format and audience.
AccessToken(leg, paramsResource, modelResource, scopes) ==
    LET resource == resolveResource(paramsResource, modelResource, scopes)
        info == getResourceServerInfo(resource).config
    IN  [leg |-> leg, supplied |-> paramsResource # Null,
         format |-> IF resource = Null THEN "opaque" ELSE info.accessTokenFormat,
         aud |-> IF resource = Null THEN "none" ELSE info.audience]

\* The authorization request: the code stores the indicator of the request,
\* or the default one.
Authorize ==
    /\ tokenFlow.leg = "none"
    /\ \E scopes \in TokenScopeSets, r \in ResourceParams :
          tokenFlow' = [NoTokenFlow EXCEPT
                           !.leg = "authorize", !.scopes = scopes,
                           !.authSupplied = r # Null,
                           !.resource = IF r # Null THEN r ELSE defaultResource]
    /\ UNCHANGED appVars
    /\ UNCHANGED regVars
    /\ UNCHANGED ixVars
    /\ UNCHANGED fnVars

\* grant_type=authorization_code
CodeExchange ==
    /\ tokenFlow.leg = "authorize"
    /\ \E r \in ResourceParams :
          tokenFlow' = [tokenFlow EXCEPT
                           !.leg = "exchange",
                           !.refreshToken =
                               issueRefreshToken(SANITIZED_CLIENTS[1], tokenFlow.scopes),
                           !.tokens = <<AccessToken("exchange", r, tokenFlow.resource,
                                                    tokenFlow.scopes)>>]
    /\ UNCHANGED appVars
    /\ UNCHANGED regVars
    /\ UNCHANGED ixVars
    /\ UNCHANGED fnVars

\* grant_type=refresh_token
RefreshExchange ==
    /\ tokenFlow.leg \in {"exchange", "refresh"}
    /\ tokenFlow.refreshToken
    /\ Len(tokenFlow.tokens) < 1 + MaxRefreshes
    /\ \E r \in ResourceParams :
          tokenFlow' = [tokenFlow EXCEPT
                           !.leg = "refresh",
                           !.tokens = Append(@, AccessToken("refresh", r, tokenFlow.resource,
                                                            tokenFlow.scopes))]
    /\ UNCHANGED appVars
    /\ UNCHANGED regVars
    /\ UNCHANGED ixVars
    /\ UNCHANGED fnVars

NextTokens ==
    \/ Authorize
    \/ CodeExchange
    \/ RefreshExchange

SpecTokens == Init /\ [][NextTokens]_vars

(***************************************************************************)
(* The client application next to an issuer that may be down.              *)
(***************************************************************************)
NextClient ==
    \/ \E c \in Callers : Request(c)
    \/ \E p \in PromiseIds : DiscoveryResponds(p)
    \/ \E p \in PromiseIds : DelayElapses(p)
    \/ \E c \in Callers : RouteContinue(c)
    \/ \E c \in Callers : ExchangeReturns(c)
    \/ \E c \in Callers : Finish(c)
    \/ IssuerChanges

SpecClient == Init /\ [][NextClient]_vars

\* Network answers and timers arrive, and a handler that can continue does.
SpecClientLive ==
    /\ SpecClient
    /\ \A p \in PromiseIds : WF_vars(DiscoveryResponds(p)) /\ WF_vars(DelayElapses(p))
    /\ \A c \in Callers :
          WF_vars(RouteContinue(c)) /\ WF_vars(ExchangeReturns(c)) /\ WF_vars(Finish(c))

(***************************************************************************)
(* Properties.                                                             *)
(***************************************************************************)
\* The raw descriptors of the source loadOIDCClients reads.
ChosenSource ==
    IF envOIDC_CLIENTS.kind \notin {"unset", "empty"} THEN envOIDC_CLIENTS.value
    ELSE IF clientsFile.kind # "absent" THEN clientsFile.value
    ELSE <<BaseClient("dev-rp")>>

Started == phase \in {"configured", "constructed", "listening"}

\* C1: issueRefreshToken answers true exactly when the client allows the
\* refresh_token grant type and either the code's scopes contain offline_access
\* or the client id is in the force-refresh set; a client without refresh_token
\* among its grant types never gets a refresh token.
C1_RefreshTokenDecision ==
    lastIssue.called =>
        (lastIssue.result <=>
            /\ "refresh_token" \in lastIssue.grantTypes
            /\ \/ "offline_access" \in lastIssue.scopes
               \/ lastIssue.clientId \in FORCE_REFRESH_CLIENT_ID_SET)

\* C1 witness: a client without the refresh_token grant type asked with
\* offline_access among the scopes, and refused.
C1_Witness ==
    /\ lastIssue.called
    /\ "refresh_token" \notin lastIssue.grantTypes
    /\ "offline_access" \in lastIssue.scopes
    /\ ~lastIssue.result

\* C2: after start-up every descriptor loaded with force_refresh_token true has
\* its client id in the force-refresh set, no descriptor handed to the engine
\* carries the field, and a client without the flag is not in the set.
C2_ForceFlagExtracted ==
    Started =>
        /\ \A i \in 1..Len(ChosenSource) :
              ForceFlag(ChosenSource[i]) =>
                  ChosenSource[i].client_id \in FORCE_REFRESH_CLIENT_ID_SET
        /\ \A i \in 1..Len(SANITIZED_CLIENTS) :
              "force_refresh_token" \notin DOMAIN SANITIZED_CLIENTS[i]
        /\ \A id \in FORCE_REFRESH_CLIENT_ID_SET :
              \E i \in 1..Len(ChosenSource) :
                  ChosenSource[i].client_id = id /\ ForceFlag(ChosenSource[i])

\* A request's step that produces its response.
Completing(r) == req[r].pc # "done" /\ req'[r].pc = "done"

\* Any step of request r.
Stepping(r) == req'[r] # req[r] /\ req'[r].pc # "idle"

StateParamOf(ix) == IF ix.state # "" THEN {ix.state} ELSE {}

\* A login body with the registered password of an account that is not
\* authorized for OAuth.
BlockedValidCreds(q) ==
    LET em == emailTransform(q.email)
    IN  /\ q.kind = "login" /\ q.uidOk
        /\ loginSchemaOk(q.email, q.password)
        /\ em \in DOMAIN USERS
        /\ q.password = USERS[em].password
        /\ ~USERS[em].oauthAuthorized

\* A login body whose email is unknown or whose password is not the stored one.
BadCreds(q) ==
    LET em == emailTransform(q.email)
    IN  /\ q.kind = "login" /\ q.uidOk
        /\ \/ em \notin DOMAIN USERS
           \/ q.password # USERS[em].password

IsErrorRedirect(resp, ix, code) ==
    /\ resp.status = 303 /\ resp.kind = "redirect"
    /\ resp.target = ix.redirect_uri
    /\ Param(resp, "error") = {code}
    /\ Param(resp, "state") = StateParamOf(ix)
    /\ Param(resp, "code") = {}

\* C3 as stated: every login submission with valid credentials of an account
\* that is not authorized for OAuth is answered with a 303 carrying
\* error=unauthorized_client.
C3_Original ==
    \A r \in Reqs :
        (req[r].pc = "done" /\ BlockedValidCreds(req[r])) =>
            /\ req[r].resp.status = 303
            /\ Param(req[r].resp, "error") = {"unauthorized_client"}

\* C3 amended: a login submission with valid credentials of an account that is
\* not authorized for OAuth never submits a login result; while the interaction
\* is live it is answered with a 303 to the client's redirect_uri carrying
\* error=unauthorized_client and the request's state, and when the interaction
\* cannot be recovered with the generic 400.
C3_BlockedLoginGated ==
    [][\A r \in Reqs :
          (Stepping(r) /\ BlockedValidCreds(req'[r])) =>
              /\ interaction' = interaction
              /\ session' = session
              /\ Completing(r) =>
                    IF interaction.live
                    THEN IsErrorRedirect(req'[r].resp, interaction, "unauthorized_client")
                    ELSE req'[r].resp = GenericErrorResp]_vars

\* C3 witness: the blocked account, at a live interaction whose request sent
\* state=xyz, was bounced to the client with unauthorized_client.
C3_Witness ==
    \E r \in Reqs :
        /\ req[r].pc = "done" /\ BlockedValidCreds(req[r])
        /\ interaction.live /\ interaction.state = "xyz"
        /\ IsErrorRedirect(req[r].resp, interaction, "unauthorized_client")

GenericLoginErrors == {"Invalid email or password. Please try again.",
                       "Invalid email or password format."}

C5_CancelDenies ==
    [][\A r \in Reqs :
          (Stepping(r) /\ req'[r].kind = "cancel" /\ req'[r].uidOk /\ interaction.live) =>
              /\ Completing(r)
              /\ IsErrorRedirect(req'[r].resp, interaction, "access_denied")
              /\ grants' = grants
              /\ codes' = codes
              /\ interaction' = interaction]_vars

\* C5 witness: a cancel at the consent prompt of a request that sent state=xyz
\* was answered with the access_denied redirect.
C5_Witness ==
    \E r \in Reqs :
        /\ req[r].pc = "done" /\ req[r].kind = "cancel" /\ req[r].uidOk
        /\ interaction.live /\ interaction.prompt = "consent"
        /\ interaction.state = "xyz"
        /\ IsErrorRedirect(req[r].resp, interaction, "access_denied")

\* C6: a confirmation resolves the interaction only after it saved the grant,
\* which it does exactly once; the submitted result's consent.grantId is the
\* saved grant's id and the result keeps the earlier login submission; a
\* confirmation that fails before the save leaves the interaction unresolved.
C6_ConfirmSavesThenResolves ==
    [][\A r \in Reqs :
          (Stepping(r) /\ req'[r].kind = "confirm") =>
              /\ req'[r].saves <= 1
              /\ req'[r].saves = 0 => interaction' = interaction
              /\ interaction' # interaction =>
                    /\ req[r].pc = "resolve"
                    /\ req[r].saves = 1
                    /\ grants[req[r].finalGrantId] # NoGrant
                    /\ interaction'.result =
                          [login   |-> interaction.lastSubmission.login,
                           consent |-> req[r].finalGrantId]
                    /\ interaction' =
                          [interaction EXCEPT !.result = interaction'.result]]_vars

\* C6 witness: a confirmation was answered with the redirect to the resume
\* address, the interaction's result names the saved grant and still carries
\* the login of user_123.
C6_Witness ==
    \E r \in Reqs :
        /\ req[r].pc = "done" /\ req[r].kind = "confirm"
        /\ req[r].resp.target = ReturnTo
        /\ req[r].saves = 1
        /\ interaction.result.login = "user_123"
        /\ interaction.result.consent = req[r].finalGrantId
        /\ GrantExists(req[r].finalGrantId)

\* C7: the grant a confirmation saves is the prior grant (empty when the
\* interaction had no grantId) united with the requested scopes and the missing
\* OIDC scopes, OIDC claims and resource scopes; nothing is removed, and
\* applying the additions again changes nothing.
C7_GrantIsUnion ==
    [][\A r \in Reqs :
          (req[r].pc = "save" /\ req'[r].pc = "resolve") =>
              LET d     == req[r].details
                  id    == req'[r].finalGrantId
                  prior == req[r].grant
                  saved == grants'[id]
              IN  /\ d.grantId # NoGrantId => id = d.grantId
                  /\ d.grantId = NoGrantId =>
                        /\ grants[id] = NoGrant
                        /\ prior.openid = {} /\ prior.claims = {}
                        /\ prior.resources = {}
                  /\ saved.openid = prior.openid \cup d.scope \cup d.missingOIDCScopes
                  /\ saved.claims = prior.claims \cup d.missingOIDCClaims
                  /\ saved.resources = prior.resources \cup d.missingResourceScopes
                  /\ saved.accountId = prior.accountId
                  /\ saved.clientId = prior.clientId
                  /\ GrantExists(id) =>
                        /\ grants[id].openid \subseteq saved.openid
                        /\ grants[id].claims \subseteq saved.claims
                        /\ grants[id].resources \subseteq saved.resources
                  /\ GrantAdditions(saved, d) = saved
                  /\ \A g \in GrantIds \ {id} : grants'[g] = grants[g]]_vars

\* C7 witness: a confirmation found a prior grant and saved it with more OIDC
\* scopes than it had.
C7_Witness ==
    \E r \in Reqs :
        /\ req[r].pc = "resolve"
        /\ req[r].details.grantId # NoGrantId
        /\ req[r].grant.openid # {}
        /\ req[r].grant.openid # grants[req[r].finalGrantId].openid
        /\ req[r].grant.openid \subseteq grants[req[r].finalGrantId].openid

\* C8: a failure handled while the interaction's redirect_uri is recoverable is
\* answered with a 303 to that redirect_uri carrying an OAuth error code and the
\* request's state; no response to a request on a live interaction is a 500.
C8_ErrorsRedirect ==
    [][\A r \in Reqs :
          (Completing(r) /\ interaction.live) =>
              /\ req'[r].resp.status # 500
              /\ req[r].pc = "catch" =>
                    \E code \in OAuthErrorCodes :
                        IsErrorRedirect(req'[r].resp, interaction, code)]_vars

\* C8 witness: a confirmation that threw on a live interaction whose request
\* sent state=xyz was answered with an error redirect.
C8_Witness ==
    \E r \in Reqs :
        /\ req[r].pc = "done" /\ req[r].kind = "confirm"
        /\ req[r].error # NoError
        /\ interaction.live /\ interaction.state = "xyz"
        /\ req[r].resp.status = 303
        /\ req[r].resp.target = interaction.redirect_uri
        /\ Param(req[r].resp, "state") = {"xyz"}

GenericBodies == {"Invalid or expired interaction", "Bad Request"}

\* C9: a request whose interaction details cannot be recovered is answered with
\* a generic 400 that is no redirect, and has written no grant.
C9_UnrecoverableIsGeneric400 ==
    \A r \in Reqs :
        (req[r].pc = "done" /\ req[r].uidOk /\ req[r].error = ErrSessionNotFound) =>
            /\ req[r].resp.status = 400
            /\ req[r].resp.kind # "redirect"
            /\ req[r].resp.body \in GenericBodies
            /\ req[r].saves = 0

\* C10: the error_description of an error redirect sent after a failure does
\* not carry the failure's internal message.
C10_NoInternalMessage ==
    \A r \in Reqs :
        (req[r].pc = "done" /\ req[r].error # NoError
         /\ req[r].resp.kind = "redirect") =>
            req[r].error.text \notin Param(req[r].resp, "error_description")

\* The lower-cased message of the last classified error includes pattern p.
Has(p) == includes(toLowerCase(call.message), Patterns[p])

Classified == call.fn = "mapErrorToOAuthCode"

\* C11: mapErrorToOAuthCode answers for every message, and its code is that of
\* the first rule, in the listed order, that the lower-cased message matches:
\* missing/required, client together with auth, grant/expired/revoked,
\* unauthorized, grant type/unsupported, scope, and invalid_request otherwise.
C11_FirstMatchingRule ==
    Classified =>
        LET r1 == Has("missing") \/ Has("required")
            r2 == Has("client") /\ Has("auth")
            r3 == Has("grant") \/ Has("expired") \/ Has("revoked")
            r4 == Has("unauthorized")
            r5 == Has("grantType") \/ Has("unsupported")
            r6 == Has("scope")
            code == call.result.code
        IN  /\ code \in OAuthErrorCodes
            /\ r1 => code = "invalid_request"
            /\ (~r1 /\ r2) => code = "invalid_client"
            /\ (~r1 /\ ~r2 /\ r3) => code = "invalid_grant"
            /\ (~r1 /\ ~r2 /\ ~r3 /\ r4) => code = "unauthorized_client"
            /\ (~r1 /\ ~r2 /\ ~r3 /\ ~r4 /\ r5) => code = "unsupported_grant_type"
            /\ (~r1 /\ ~r2 /\ ~r3 /\ ~r4 /\ ~r5 /\ r6) => code = "invalid_scope"
            /\ ~(r1 \/ r2 \/ r3 \/ r4 \/ r5 \/ r6) => code = "invalid_request"

\* C11 witness: a message matching the second and the fourth rule was given the
\* code of the second.
C11_Witness ==
    /\ Classified
    /\ Has("client") /\ Has("auth") /\ Has("unauthorized")
    /\ ~Has("missing") /\ ~Has("required")
    /\ call.result.code = "invalid_client"

\* The uid of a request is outside the allow-list or the length limits.
UidRejectable(uid) ==
    \/ Len(uid) = 0
    \/ Len(uid) > 100
    \/ \E i \in 1..Len(uid) : uid[i] \notin AllowedUidChars

\* C12: on every interaction endpoint a uid that is empty, longer than 100
\* characters or holds a character outside [a-zA-Z0-9_-] is answered with 400
\* before any call to the engine; any other uid passes the check.
C12_UidCheckedFirst ==
    \A r \in Reqs :
        req[r].kind # "none" =>
            IF UidRejectable(req[r].uid)
            THEN /\ req[r].pc = "done"
                 /\ req[r].resp.status = 400
                 /\ req[r].resp.kind = "text"
                 /\ req[r].engineCalls = 0
                 /\ req[r].saves = 0
            ELSE /\ req[r].uidOk
                 /\ req[r].engineCalls >= 1
                 /\ req[r].resp # InvalidUidResp

\* C12 witness: a confirmation whose uid has 101 allowed characters was
\* answered with 400 without a call to the engine.
C12_Witness ==
    \E r \in Reqs :
        /\ req[r].kind = "confirm" /\ req[r].pc = "done"
        /\ Len(req[r].uid) = 101
        /\ \A i \in 1..101 : req[r].uid[i] \in AllowedUidChars
        /\ req[r].resp = InvalidUidResp
        /\ req[r].engineCalls = 0

\* The source the stated priority picks, its descriptors, and whether it is
\* malformed or fails schema validation.
PrioritySource ==
    IF envOIDC_CLIENTS.kind \notin {"unset", "empty"} THEN "env"
    ELSE IF clientsFile.kind # "absent" THEN "file"
    ELSE "fallback"

PriorityList ==
    CASE PrioritySource = "env" -> envOIDC_CLIENTS.value
      [] PrioritySource = "file" -> clientsFile.value
      [] OTHER -> <<[BaseClient("dev-rp") EXCEPT !.redirect_uris = <<envREDIRECT_URI>>]>>

PriorityBad ==
    \/ PrioritySource = "env" /\ envOIDC_CLIENTS.kind = "malformed"
    \/ PrioritySource = "file" /\ clientsFile.kind = "malformed"
    \/ \E i \in 1..Len(PriorityList) : ~oidcClientSchemaOk(PriorityList[i])

\* C13: loadOIDCClients reads the OIDC_CLIENTS variable when it is set (to a
\* non-empty value), else the .env.clients.json file when it exists, else the
\* single client built from CLIENT_ID/CLIENT_SECRET/REDIRECT_URI; when the
\* source it reads is malformed or fails validation the load throws and no
\* lower source is used.
C13_SourcePriority ==
    phase # "boot" =>
        /\ clientSource = PrioritySource
        /\ PriorityBad =>
              /\ phase = "aborted"
              /\ OIDC_CLIENTS = <<>>
              /\ startupError.message \in {"Invalid OIDC clients configuration",
                                           "Invalid default OIDC client configuration"}
        /\ ~PriorityBad =>
              /\ Len(OIDC_CLIENTS) = Len(PriorityList)
              /\ \A i \in 1..Len(PriorityList) :
                    /\ OIDC_CLIENTS[i].client_id = PriorityList[i].client_id
                    /\ OIDC_CLIENTS[i].redirect_uris = PriorityList[i].redirect_uris
                    /\ OIDC_CLIENTS[i].grant_types = PriorityList[i].grant_types

\* C13 witness: OIDC_CLIENTS is set but is not JSON while the file holds a
\* valid descriptor, and start-up aborted without reading the file.
C13_Witness ==
    /\ envOIDC_CLIENTS.kind = "malformed"
    /\ clientsFile.kind = "json" /\ Len(clientsFile.value) = 1
    /\ \A i \in 1..Len(clientsFile.value) : oidcClientSchemaOk(clientsFile.value[i])
    /\ phase = "aborted"
    /\ clientSource = "env"
    /\ OIDC_CLIENTS = <<>>

\* The source loadOIDCClients reads holds a descriptor with a relative
\* redirect URI.
HasRelativeRedirect ==
    /\ PrioritySource = "fallback" => envREDIRECT_URI # "unread"
    /\ \E i \in 1..Len(PriorityList) :
          /\ "redirect_uris" \in DOMAIN PriorityList[i]
          /\ \E j \in 1..Len(PriorityList[i].redirect_uris) :
                PriorityList[i].redirect_uris[j] = RelativeUri

\* JWKS was supplied and is not a key set: not JSON, no keys, or a key of an
\* unknown type.
JwksSupplied == envJWKS.kind \in {"malformed", "json"}

JwksOffendingField ==
    IF envJWKS.kind # "json" THEN "none"
    ELSE IF "keys" \notin DOMAIN envJWKS.value THEN "keys"
    ELSE IF envJWKS.value.keys = <<>> THEN "keys"
    ELSE IF \E i \in 1..Len(envJWKS.value.keys) :
                envJWKS.value.keys[i].kty \notin {"RSA", "EC", "OKP", "oct"}
    THEN "kty"
    ELSE "none"

JwksMalformed ==
    JwksSupplied /\ (envJWKS.kind = "malformed" \/ JwksOffendingField # "none")

\* C14: the server listens only after the client descriptors and the supplied
\* JWKS passed validation; a descriptor with a relative redirect URI, or a
\* malformed JWKS, aborts start-up with an error that names the offending
\* field, and the server is never listening.
C14_ValidatedBeforeListen ==
    /\ phase = "listening" =>
          /\ ~PriorityBad
          /\ ~JwksMalformed
          /\ envJWKS.kind # "unread"
    /\ (phase # "boot" /\ HasRelativeRedirect) =>
          /\ phase = "aborted"
          /\ "redirect_uris" \in startupError.fields
    /\ JwksMalformed =>
          /\ phase = "aborted"
          /\ startupError.message = "Invalid JWKS configuration"
          /\ JwksOffendingField # "none" =>
                startupError.fields = {JwksOffendingField}

\* C14 witness: OIDC_CLIENTS held a descriptor with a relative redirect URI and
\* start-up aborted naming redirect_uris.
C14_Witness ==
    /\ envOIDC_CLIENTS.kind = "json"
    /\ HasRelativeRedirect
    /\ phase = "aborted"
    /\ startupError.fields = {"redirect_uris"}

\* loadOIDCClients returned: the registry holds the descriptors it accepted.
RegistryLoaded == phase \in {"loaded", "keyed", "configured", "constructed", "listening"}

\* C15: every descriptor the registry accepted has grant_types within
\* {authorization_code, refresh_token}, and a source listing any other grant
\* type is rejected at load.
C15_GrantTypesWithinTwo ==
    /\ RegistryLoaded =>
          \A i \in 1..Len(OIDC_CLIENTS) :
              OIDC_CLIENTS[i].grant_types \subseteq {"authorization_code", "refresh_token"}
    /\ (phase # "boot"
         /\ \E i \in 1..Len(PriorityList) :
                ~(PriorityList[i].grant_types \subseteq
                      {"authorization_code", "refresh_token"})) =>
          phase = "aborted"

\* C16: after a successful load no two descriptors of the registry share a
\* client_id, and a configuration with two descriptors of the same client_id
\* never has the server listening.
C16_ClientIdsUnique ==
    /\ RegistryLoaded =>
          \A i, j \in 1..Len(OIDC_CLIENTS) :
              OIDC_CLIENTS[i].client_id = OIDC_CLIENTS[j].client_id => i = j
    /\ (\E i, j \in 1..Len(PriorityList) :
            i # j /\ PriorityList[i].client_id = PriorityList[j].client_id) =>
          phase # "listening"

\* The users of the store whose id is the subject.
UsersWithId(sub) == {e \in DOMAIN USERS : USERS[e].id = sub}

\* C17: for every subject, findAccount returns an account whose claims are
\* {sub, email, name} of the user whose id is the subject when there is one
\* and exactly {sub} otherwise, and the sub returned is the subject asked for.
C17_ClaimsNeverFail ==
    call.fn = "findAccount" =>
        /\ call.result.accountId = call.sub
        /\ call.result.claims.sub = call.sub
        /\ \A e \in UsersWithId(call.sub) :
               call.result.claims =
                   [sub |-> call.sub, email |-> USERS[e].email, name |-> USERS[e].name]
        /\ UsersWithId(call.sub) = {} => call.result.claims = [sub |-> call.sub]

C17_Witness ==
    /\ call.fn = "findAccount"
    /\ call.sub = "user_999"
    /\ DOMAIN call.result.claims = {"sub"}
\* C18: for all pairs of strings, secureComparePasswords returns a boolean,
\* and returns true if and only if the two strings are exactly equal.
C18_TrueIffEqual ==
    call.fn = "secureComparePasswords" =>
        /\ call.result \in BOOLEAN
        /\ call.result = (CharsOf(call.provided) = CharsOf(call.stored))
\* C19: getResourceServerInfo returns a configuration only for a registered
\* resource server; for every other indicator it fails and returns none.
C19_OnlyRegisteredAccepted ==
    call.fn = "getResourceServerInfo" =>
        /\ call.resourceIndicator \in RegisteredResources => ~call.result.threw
        /\ call.resourceIndicator \notin RegisteredResources =>
               /\ call.result.threw
               /\ call.result.config = NoResourceServerInfo

\* C20: for every indicator the issuer accepts, the configuration used to
\* mint the access token has audience equal to that indicator, format jwt
\* and a lifetime of 3600 seconds, and the token's aud is the indicator.
C20_AudienceIsIndicator ==
    (call.fn = "getResourceServerInfo" /\ call.app = "auth" /\ ~call.result.threw) =>
        /\ call.result.config.audience = call.resourceIndicator
        /\ call.result.config.accessTokenFormat = "jwt"
        /\ call.result.config.accessTokenTTL = 3600
        /\ call.aud = call.resourceIndicator
\* C23: every error whose message contains "grant type" or "unsupported" is
\* classified as unsupported_grant_type.
C23_GrantTypeIsUnsupported ==
    (Classified /\ (Has("grantType") \/ Has("unsupported"))) =>
        call.result.code = "unsupported_grant_type"

\* C24: every error whose message contains "unauthorized" is classified as
\* unauthorized_client, messages that also mention the client included.
C24_UnauthorizedIsUnauthorizedClient ==
    (Classified /\ Has("unauthorized")) => call.result.code = "unauthorized_client"
\* The ids of the users allowed to authorize OAuth clients.
AuthorizedIds == {USERS[e].id : e \in {x \in DOMAIN USERS : USERS[x].oauthAuthorized}}

\* Request r is a login submission that has just bound an account.
LoginBound(r) ==
    /\ req[r].kind = "login"
    /\ req[r].pc = "done"
    /\ req[r].resp = RedirectResp(ReturnTo, {})

\* C25: every accountId a login result binds to the interaction, and every
\* accountId of a stored grant, is the id of a user with oauthAuthorized true,
\* and a login that bound an account submitted that user's stored password.
C25_OnlyAuthorizedAccounts ==
    /\ interaction.result.login \in {"none"} \cup AuthorizedIds
    /\ interaction.accountId \in {"none"} \cup AuthorizedIds
    /\ \A g \in GrantIds : GrantExists(g) => grants[g].accountId \in AuthorizedIds
    /\ \A c \in codes : c.accountId \in AuthorizedIds
    /\ \A r \in Reqs :
          /\ req[r].grantDefined => req[r].grant.accountId \in AuthorizedIds
          /\ LoginBound(r) =>
                LET em == emailTransform(req[r].email)
                IN  /\ em \in DOMAIN USERS
                    /\ USERS[em].oauthAuthorized
                    /\ CharsOf(req[r].password) = CharsOf(USERS[em].password)
                    /\ interaction.result.login = USERS[em].id

\* C25 witness: a grant was saved for the authorized user after a login.
C25_Witness ==
    /\ \E g \in GrantIds : GrantExists(g) /\ grants[g].accountId = "user_123"
    /\ \E r \in Reqs : req[r].kind = "confirm" /\ req[r].saves > 0
\* Login submissions that pass loginSchema.
ValidLogins == {l \in Emails \X Passwords : loginSchemaOk(l[1], l[2])}

\* The email of a valid submission is not a key of USERS.
Unregistered(l) == emailTransform(l[1]) \notin DOMAIN USERS

\* The email is registered and the password differs from the stored one.
WrongPassword(l) ==
    /\ emailTransform(l[1]) \in DOMAIN USERS
    /\ CharsOf(l[2]) # CharsOf(USERS[emailTransform(l[1])].password)

\* A response without the email it echoes.
WithoutEmail(resp) == [resp EXCEPT !.email = "none"]

\* C30: on the same interaction, a valid submission with an unregistered
\* email and one with a registered email and a wrong password get the same
\* response but for the echoed email, and a step that handles either leaves
\* the interaction as it was.
C30_SameAnswerForBadCredentials ==
    [][/\ \A a, b \in ValidLogins :
             (Unregistered(a) /\ WrongPassword(b)) =>
                 LET oa == LoginOutcome(interaction, a[1], a[2])
                     ob == LoginOutcome(interaction, b[1], b[2])
                 IN  /\ oa.threw = ob.threw
                     /\ WithoutEmail(oa.resp) = WithoutEmail(ob.resp)
                     /\ oa.submit = NoResult /\ ob.submit = NoResult
       /\ \A r \in Reqs :
             LET l == <<req'[r].email, req'[r].password>>
             IN  (/\ req[r].pc = "idle" /\ req'[r].kind = "login" /\ req'[r].uidOk
                  /\ l \in ValidLogins
                  /\ Unregistered(l) \/ WrongPassword(l)) =>
                     /\ interaction' = interaction
                     /\ req'[r].pc = "done" =>
                            WithoutEmail(req'[r].resp) =
                                RenderResp("login",
                                    "Invalid email or password. Please try again.", "none")
      ]_vars

\* C30 witness: a valid submission with an unregistered email was answered on
\* a live interaction.
C30_Witness ==
    /\ interaction.live
    /\ \E r \in Reqs :
          /\ req[r].kind = "login" /\ req[r].pc = "done" /\ req[r].uidOk
          /\ <<req[r].email, req[r].password>> \in ValidLogins
          /\ Unregistered(<<req[r].email, req[r].password>>)
          /\ req[r].resp.formError = "Invalid email or password. Please try again."
\* The cancel handler has answered a request for uid on the n-th interaction
\* with access_denied.
CancelAnswered(n, uid) ==
    /\ flows = n
    /\ interaction.live
    /\ \E r \in Reqs :
          /\ req[r].kind = "cancel" /\ req[r].pc = "done" /\ req[r].uid = uid
          /\ <<"error", "access_denied">> \in req[r].resp.query

\* A login or confirm submission for uid on the n-th interaction saved a grant
\* or was answered with the redirect that resumes the flow towards the code.
LaterSuccess(n, uid) ==
    /\ flows = n
    /\ \E r \in Reqs :
          /\ req[r].uid = uid
          /\ \/ req[r].kind = "confirm" /\ req[r].saves > 0
             \/ /\ req[r].kind \in {"login", "confirm"} /\ req[r].pc = "done"
                /\ req[r].resp = RedirectResp(ReturnTo, {})

\* C26: once the cancel handler has answered an interaction with the
\* access_denied redirect, no later login or confirm submission on the same
\* uid saves a grant or is redirected on towards an authorization code.
C26_CancelIsTerminal ==
    \A n \in 1..MaxFlows : \A uid \in Uids :
        [](CancelAnswered(n, uid) => [](~LaterSuccess(n, uid)))

\* Request r is a confirm request that found no grantId on the interaction and
\* has stored its grant.
SavedNewGrant(r) ==
    /\ req[r].kind = "confirm" /\ req[r].pc = "resolve"
    /\ req[r].details.grantId = NoGrantId
    /\ req[r].saves > 0

\* The scopes and claims grant g holds include all that a confirm request
\* adds for the interaction ix.
HoldsAdditions(g, ix) ==
    LET added == GrantAdditions(NoGrant, ix)
    IN  /\ added.openid \subseteq grants[g].openid
        /\ added.claims \subseteq grants[g].claims
        /\ added.resources \subseteq grants[g].resources

\* C27: when two confirm requests for the same interaction, which carries no
\* grantId, are interleaved at their awaits, they store at most one grant, and
\* the grantId of the interaction's result is a grant holding every scope
\* either request added.
C27_OneGrantForTwoConfirms ==
    /\ \A r, s \in Reqs :
          (r # s /\ SavedNewGrant(r) /\ SavedNewGrant(s)) =>
              req[r].finalGrantId = req[s].finalGrantId
    /\ \A r \in Reqs :
          (/\ req[r].kind = "confirm" /\ req[r].pc = "done"
           /\ req[r].resp = RedirectResp(ReturnTo, {})
           /\ interaction.live /\ GrantExists(interaction.result.consent)) =>
              HoldsAdditions(interaction.result.consent, interaction)
\* C22: if the issuer eventually becomes and stays reachable, every call of
\* ensureConfig that waits for discovery eventually returns a configuration,
\* and no call fails.
C22_DiscoveryEventuallySucceeds ==
    (<>[]issuerUp) =>
        \A c \in Callers :
            /\ [](caller[c].pc = "ensure" => <>(caller[c].outcome = "config"))
            /\ [](caller[c].outcome # "threw")
\* The discovery loops in flight.
LoopsInFlight == {p \in PromiseIds : InFlightLoop(p)}

\* C28: at most one discovery loop is in flight, it is the promise stored in
\* configInitPromise and every caller waiting in ensureConfig waits for it; a
\* caller that waited has the outcome of its loop; a loop makes at most
\* maxAttempts attempts; and once config is set no step starts a loop or
\* changes config.
C28_OneDiscoveryLoop ==
    [][/\ Cardinality(LoopsInFlight) <= 1
       /\ \A p \in LoopsInFlight : configInitPromise = p
       /\ \A p \in PromiseIds :
             promises[p].attempt <= maxAttempts /\ promises'[p].attempt <= maxAttempts
       /\ \A c \in Callers :
             /\ caller[c].pc = "ensure" => caller[c].promise \in LoopsInFlight
             /\ (caller[c].pc = "ensure" /\ caller'[c].pc = "route") =>
                    /\ caller'[c].outcome = "config" <=>
                           promises'[caller[c].promise].state = "fulfilled"
                    /\ caller'[c].outcome = "threw" <=>
                           promises'[caller[c].promise].state = "rejected"
             /\ (caller[c].pc = "idle" /\ caller'[c].pc = "ensure"
                  /\ LoopsInFlight # {}) =>
                    caller'[c].promise \in LoopsInFlight /\ promises' = promises
       /\ config # "undefined" =>
             /\ config' = config
             /\ \A p \in PromiseIds : promises[p].state = "none" => promises'[p].state = "none"
      ]_vars

\* C28 witness: both callers wait for the same loop, which is at its last
\* attempt.
C28_Witness ==
    /\ \A c \in Callers : caller[c].pc = "ensure" /\ caller[c].promise = configInitPromise
    /\ configInitPromise # NoPromiseId
    /\ promises[configInitPromise].attempt = maxAttempts

\* The callback of request c had no error parameter (absent or empty), a
\* code, and a state equal to the one stored in the oidc cookie.
CallbackAcceptable(c) ==
    /\ ~Truthy(caller[c].error)
    /\ Truthy(caller[c].code)
    /\ caller[c].cookie.kind = "json"
    /\ caller[c].cookie.state # ""
    /\ caller[c].state = caller[c].cookie.state

\* C29: in /callback the token exchange is started, and the tokens cookie
\* written, only for a callback with no error parameter, a code and a state
\* equal to the stored one; every other callback is answered 400 with no
\* exchange and no tokens cookie.
C29_TokensOnlyAfterCheckedCallback ==
    \A c \in Callers :
        caller[c].route = "callback" =>
            /\ caller[c].exchange # "none" => CallbackAcceptable(c)
            /\ caller[c].tokensCookie =>
                   CallbackAcceptable(c) /\ caller[c].exchange = "succeeded"
            /\ (caller[c].pc = "done" /\ ~CallbackAcceptable(c)) =>
                   /\ caller[c].exchange = "none"
                   /\ ~caller[c].tokensCookie
                   /\ caller[c].status = 400

\* C29 witness: a callback with a code and a stored verifier, whose state
\* differs from the stored one, was answered 400.
C29_Witness ==
    \E c \in Callers :
        /\ caller[c].route = "callback" /\ caller[c].pc = "done"
        /\ caller[c].cookie.kind = "json" /\ caller[c].cookie.state = "s1"
        /\ caller[c].cookie.code_verifier = "v1"
        /\ caller[c].state = "s2" /\ caller[c].code = "c1" /\ caller[c].error = Null
        /\ caller[c].status = 400
====
